---- MODULE Spec2Model ----
(***************************************************************************)
(* Model of the videobase-pi dashboard front end:                          *)
(*   - the detection normalizer of CameraView (inferFrameSize,             *)
(*     normalizeValue, normalizeBBox, extractBoxFromCandidate,             *)
(*     buildDetectionsFromInference, parseDetections), as operators over   *)
(*     tagged JavaScript values;                                           *)
(*   - the connection effect of CameraView (connectWebSocket, the socket   *)
(*     handlers, the reconnect timer and the effect cleanup), as a state   *)
(*     machine.                                                            *)
(***************************************************************************)
EXTENDS Integers, Sequences, FiniteSets, TLC

(***************************************************************************)
(* JavaScript values.  Every value is a record with a tag t.  Numbers are  *)
(* exact rationals n/d in lowest terms with d > 0; NaN and the two         *)
(* infinities (which JSON.parse gives for a numeral out of range, such as  *)
(* 1e999) are separate values of type number.                              *)
(***************************************************************************)
Undefined == [t |-> "undefined"]
Null == [t |-> "null"]
NaN == [t |-> "nan"]
Infinity(s) == [t |-> "inf", s |-> s]
Throw == [t |-> "throw"]

Abs(n) == IF n < 0 THEN -n ELSE n

RECURSIVE GCD(_, _)
GCD(a, b) == IF b = 0 THEN a ELSE GCD(b, a % b)

Rat(n, d) == LET g == GCD(Abs(n), d) IN [t |-> "num", n |-> n \div g, d |-> d \div g]
Num(n) == [t |-> "num", n |-> n, d |-> 1]
Str(s) == [t |-> "str", s |-> s]
Bool(b) == [t |-> "bool", b |-> b]
Arr(a) == [t |-> "arr", a |-> a]
Obj(o) == [t |-> "obj", o |-> o]
EmptyObject == Obj([k \in {} |-> Undefined])

IsNullish(v) == v.t \in {"undefined", "null"}

\* a ?? b
Coalesce(a, b) == IF IsNullish(a) THEN b ELSE a

\* ToBoolean
Truthy(v) ==
  CASE v.t \in {"undefined", "null", "nan"} -> FALSE
    [] v.t = "num" -> v.n # 0
    [] v.t = "str" -> v.s # ""
    [] v.t = "bool" -> v.b
    [] OTHER -> TRUE

\* a || b
OrElse(a, b) == IF Truthy(a) THEN a ELSE b

\* typeof v === 'number'
TypeofNumber(v) == v.t \in {"num", "nan", "inf"}

\* Array.isArray(v)
IsArray(v) == v.t = "arr"

\* v.k for a named property k: a TypeError on null and undefined, the own
\* property of an object, undefined on arrays and primitives (none of the
\* names the normalizer reads is a prototype property).
Get(v, k) ==
  CASE IsNullish(v) -> Throw
    [] v.t = "obj" -> IF k \in DOMAIN v.o THEN v.o[k] ELSE Undefined
    [] OTHER -> Undefined

\* v?.k
GetOpt(v, k) == IF IsNullish(v) THEN Undefined ELSE Get(v, k)

\* v[i] for a 0-based index i.  Indexing a string is not modelled: no
\* enumerated input reaches it.
At(v, i) ==
  CASE IsNullish(v) -> Throw
    [] v.t = "arr" -> IF i < Len(v.a) THEN v.a[i + 1] ELSE Undefined
    [] v.t \in {"obj", "num", "nan", "inf", "bool"} -> Undefined

\* v?.[i]
AtOpt(v, i) == IF IsNullish(v) THEN Undefined ELSE At(v, i)

\* Number("...") for the strings of the model: the empty string is 0, a
\* decimal numeral is its value, anything else is NaN.
NumericStrings == [s \in {"5"} |-> 5]
StringToNumber(s) ==
  IF s = "" THEN Num(0)
  ELSE IF s \in DOMAIN NumericStrings THEN Num(NumericStrings[s]) ELSE NaN

\* ToNumber(v).  An array converts through its string form: [] is "", a
\* one-element array is the string of its element (null and undefined give
\* ""), a longer array has a comma in it.
RECURSIVE ToNumber(_)
ToNumber(v) ==
  CASE v.t = "undefined" -> NaN
    [] v.t = "null" -> Num(0)
    [] v.t = "bool" -> IF v.b THEN Num(1) ELSE Num(0)
    [] v.t \in {"num", "nan", "inf"} -> v
    [] v.t = "str" -> StringToNumber(v.s)
    [] v.t = "arr" ->
         IF Len(v.a) = 0 THEN Num(0)
         ELSE IF Len(v.a) > 1 THEN NaN
         ELSE LET e == v.a[1] IN
              CASE IsNullish(e) -> Num(0)
                [] e.t = "bool" -> NaN
                [] e.t = "obj" -> NaN
                [] OTHER -> ToNumber(e)
    [] v.t = "obj" -> NaN

\* Order and arithmetic on numbers other than NaN.  The finite numbers of
\* the model are far from the range where finite arithmetic overflows.
Sign(a) == IF a.t = "inf" THEN a.s ELSE IF a.n > 0 THEN 1 ELSE IF a.n < 0 THEN -1 ELSE 0
Less(a, b) ==
  IF a.t = "inf" THEN a.s = -1 /\ b # a
  ELSE IF b.t = "inf" THEN b.s = 1
  ELSE a.n * b.d < b.n * a.d
LessEq(a, b) ==
  IF a.t = "inf" \/ b.t = "inf" THEN a = b \/ Less(a, b)
  ELSE a.n * b.d <= b.n * a.d
Quot(a, b) ==
  IF a.t = "inf" THEN IF b.t = "inf" THEN NaN
                      ELSE Infinity(IF Sign(b) < 0 THEN -a.s ELSE a.s)
  ELSE IF b.t = "inf" THEN Num(0)
  ELSE IF b.n > 0 THEN Rat(a.n * b.d, a.d * b.n)
  ELSE IF b.n < 0 THEN Rat(-(a.n * b.d), a.d * (-b.n))
  ELSE IF a.n = 0 THEN NaN ELSE Infinity(Sign(a))
Diff(a, b) ==
  IF a.t = "inf" THEN IF b = a THEN NaN ELSE a
  ELSE IF b.t = "inf" THEN Infinity(-b.s)
  ELSE Rat(a.n * b.d - b.n * a.d, a.d * b.d)

\* Math.max(a, b) and Math.min(a, b): the arguments go through ToNumber and
\* NaN is contagious.
Larger(x, y) == IF x.t = "nan" \/ y.t = "nan" THEN NaN ELSE IF Less(x, y) THEN y ELSE x
Smaller(x, y) == IF x.t = "nan" \/ y.t = "nan" THEN NaN ELSE IF Less(y, x) THEN y ELSE x
MathMax(a, b) == Larger(ToNumber(a), ToNumber(b))
MathMin(a, b) == Smaller(ToNumber(a), ToNumber(b))

\* a - b
Difference(x, y) == IF x.t = "nan" \/ y.t = "nan" THEN NaN ELSE Diff(x, y)
Minus(a, b) == Difference(ToNumber(a), ToNumber(b))

(***************************************************************************)
(* The detection normalizer.                                               *)
(***************************************************************************)
DEFAULT_FRAME_DIMENSION == 1

\* Mutant of inferFrameSize: a payload without frame fields is taken to be in
\* pixels of a 640x480 frame.
inferFrameSize_vga(source) ==
  LET resolution == GetOpt(source, "resolution") IN
  IF IsArray(resolution) /\ Len(resolution.a) >= 2
  THEN Obj([width |-> At(resolution, 0), height |-> At(resolution, 1)])
  ELSE Obj([width |-> Coalesce(GetOpt(source, "frame_width"),
                       Coalesce(GetOpt(source, "image_width"),
                       Coalesce(GetOpt(source, "width"), Num(640)))),
            height |-> Coalesce(GetOpt(source, "frame_height"),
                        Coalesce(GetOpt(source, "image_height"),
                        Coalesce(GetOpt(source, "height"), Num(480))))])

\* Mutant of inferFrameSize: the discrete fields are looked at first and the
\* resolution array only when an axis has none.
inferFrameSize_fieldsFirst(source) ==
  LET resolution == GetOpt(source, "resolution")
      fromArray == IsArray(resolution) /\ Len(resolution.a) >= 2
  IN Obj([width |-> Coalesce(GetOpt(source, "frame_width"),
                    Coalesce(GetOpt(source, "image_width"),
                    Coalesce(GetOpt(source, "width"),
                      IF fromArray THEN At(resolution, 0) ELSE Num(DEFAULT_FRAME_DIMENSION)))),
          height |-> Coalesce(GetOpt(source, "frame_height"),
                     Coalesce(GetOpt(source, "image_height"),
                     Coalesce(GetOpt(source, "height"),
                       IF fromArray THEN At(resolution, 1) ELSE Num(DEFAULT_FRAME_DIMENSION))))])

inferFrameSize(source) ==
  LET resolution == GetOpt(source, "resolution") IN
  IF IsArray(resolution) /\ Len(resolution.a) >= 2
  THEN Obj([width |-> At(resolution, 0), height |-> At(resolution, 1)])
  ELSE Obj([width |-> Coalesce(GetOpt(source, "frame_width"),
                       Coalesce(GetOpt(source, "image_width"),
                       Coalesce(GetOpt(source, "width"), Num(DEFAULT_FRAME_DIMENSION)))),
            height |-> Coalesce(GetOpt(source, "frame_height"),
                        Coalesce(GetOpt(source, "image_height"),
                        Coalesce(GetOpt(source, "height"), Num(DEFAULT_FRAME_DIMENSION))))])

normalizeValue(value, dimension) ==
  IF ~TypeofNumber(value) \/ value.t = "nan" THEN Null
  ELSE LET safeDimension ==
             IF TypeofNumber(dimension) /\ dimension.t # "nan" /\ Less(Num(0), dimension)
             THEN dimension ELSE Num(DEFAULT_FRAME_DIMENSION)
       IN IF Less(Num(1), safeDimension)
          THEN MathMin(MathMax(Quot(value, safeDimension), Num(0)), Num(1))
          ELSE IF LessEq(value, Num(1))
               THEN MathMin(MathMax(value, Num(0)), Num(1))
               ELSE MathMin(MathMax(value, Num(0)), Num(1))

\* normalizeBBox: the four normalized values make a box unless one is null.
NormalizedOrNull(x, y, width, height) ==
  IF \E value \in {x, y, width, height} : value = Null
  THEN Null
  ELSE Obj([x |-> x, y |-> y, width |-> width, height |-> height])

\* Mutant of normalizeBBox: y and height are divided by the frame width.
normalizeBBox_widthOnly(bbox, frameSize) ==
  IF bbox = Throw THEN Throw
  ELSE IF ~Truthy(bbox) THEN Null
  ELSE NormalizedOrNull(
         normalizeValue(Get(bbox, "x"), Get(frameSize, "width")),
         normalizeValue(Get(bbox, "y"), Get(frameSize, "width")),
         normalizeValue(MathMax(Get(bbox, "width"), Num(0)), Get(frameSize, "width")),
         normalizeValue(MathMax(Get(bbox, "height"), Num(0)), Get(frameSize, "width")))

\* Mutant of normalizeBBox: a box with a negative width or height is rejected.
normalizeBBox_rejectsNegative(bbox, frameSize) ==
  IF bbox = Throw THEN Throw
  ELSE IF ~Truthy(bbox) THEN Null
  ELSE IF \E side \in {Get(bbox, "width"), Get(bbox, "height")} :
            side.t = "num" /\ side.n < 0
       THEN Null
  ELSE NormalizedOrNull(
         normalizeValue(Get(bbox, "x"), Get(frameSize, "width")),
         normalizeValue(Get(bbox, "y"), Get(frameSize, "height")),
         normalizeValue(MathMax(Get(bbox, "width"), Num(0)), Get(frameSize, "width")),
         normalizeValue(MathMax(Get(bbox, "height"), Num(0)), Get(frameSize, "height")))

normalizeBBox(bbox, frameSize) ==
  IF bbox = Throw THEN Throw
  ELSE IF ~Truthy(bbox) THEN Null
  ELSE NormalizedOrNull(
         normalizeValue(Get(bbox, "x"), Get(frameSize, "width")),
         normalizeValue(Get(bbox, "y"), Get(frameSize, "height")),
         normalizeValue(MathMax(Get(bbox, "width"), Num(0)), Get(frameSize, "width")),
         normalizeValue(MathMax(Get(bbox, "height"), Num(0)), Get(frameSize, "height")))

\* [x, y, width, height].every(v => typeof v === 'number' && !Number.isNaN(v))
AllNumeric(vs) == \A i \in 1..Len(vs) : TypeofNumber(vs[i]) /\ vs[i].t # "nan"

\* extractBoxFromCandidate, the array form: source is an array.
BoxFromArray(source) ==
  IF Len(source.a) >= 4 /\ \A i \in 1..4 : TypeofNumber(source.a[i])
  THEN Obj([x |-> source.a[1], y |-> source.a[2],
            width |-> source.a[3], height |-> source.a[4]])
  ELSE Null

\* extractBoxFromCandidate, the object form: width (height) is derived from
\* the far corner when x (y) and the far corner are given and it is not.
\* Mutant of DerivedSize: the near corner minus the far one.
DerivedSize_swapped(start, size, end) ==
  IF ~IsNullish(start) /\ IsNullish(size) /\ ~IsNullish(end)
  THEN Minus(start, end) ELSE size

DerivedSize(start, size, end) ==
  IF ~IsNullish(start) /\ IsNullish(size) /\ ~IsNullish(end)
  THEN Minus(end, start) ELSE size
BoxIfNumeric(x, y, width, height) ==
  IF AllNumeric(<<x, y, width, height>>)
  THEN Obj([x |-> x, y |-> y, width |-> width, height |-> height])
  ELSE Null
BoxFromFields(x, y, width0, height0, x2, y2) ==
  BoxIfNumeric(x, y, DerivedSize(x, width0, x2), DerivedSize(y, height0, y2))
BoxFromObject(source) ==
  BoxFromFields(
    Coalesce(Get(source, "x"), Coalesce(Get(source, "left"),
    Coalesce(Get(source, "x_min"), Coalesce(Get(source, "x1"),
    Coalesce(Get(source, "cx"), Get(source, "center_x")))))),
    Coalesce(Get(source, "y"), Coalesce(Get(source, "top"),
    Coalesce(Get(source, "y_min"), Coalesce(Get(source, "y1"),
    Coalesce(Get(source, "cy"), Get(source, "center_y")))))),
    Coalesce(Get(source, "width"), Get(source, "w")),
    Coalesce(Get(source, "height"), Get(source, "h")),
    Coalesce(Get(source, "x2"), Coalesce(Get(source, "x_max"), Get(source, "right"))),
    Coalesce(Get(source, "y2"), Coalesce(Get(source, "y_max"), Get(source, "bottom"))))

\* extractBoxFromCandidate once source is chosen.
BoxFromSource(source) ==
  IF IsArray(source) THEN BoxFromArray(source)
  ELSE IF source.t = "obj" THEN BoxFromObject(source)
  ELSE Null

\* extractBoxFromCandidate after its first guard.
extractBoxFromSource(candidate) ==
  BoxFromSource(Coalesce(Get(candidate, "bbox"),
                Coalesce(Get(candidate, "box"),
                Coalesce(Get(candidate, "rect"),
                Coalesce(Get(candidate, "region"), candidate)))))

\* Mutant of extractBoxFromCandidate: the guard on a missing candidate is
\* gone, so candidate.bbox is read from null.
extractBoxFromCandidate_noGuard(candidate) ==
  IF IsNullish(candidate) THEN Throw ELSE extractBoxFromSource(candidate)

extractBoxFromCandidate(candidate) ==
  IF ~Truthy(candidate) THEN Null ELSE extractBoxFromSource(candidate)

\* `object-${index + 1}`
PositionalLabel(index) == Str("object-" \o ToString(index + 1))

\* list.filter(Boolean) on a sequence of values
RECURSIVE FilterBoolean(_)
FilterBoolean(s) ==
  IF s = <<>> THEN <<>>
  ELSE IF Truthy(Head(s)) THEN <<Head(s)>> \o FilterBoolean(Tail(s))
       ELSE FilterBoolean(Tail(s))

\* The result of a map callback sequence: the exception if one was thrown.
Thrown(s) == \E i \in 1..Len(s) : s[i] = Throw

\* The end of both map callbacks: no detection without a normalized box.
DetectionOrNull(normalizedBox, label, confidence) ==
  IF normalizedBox = Throw THEN Throw
  ELSE IF ~Truthy(normalizedBox) THEN Null
  ELSE Obj([label |-> label, confidence |-> confidence, box |-> normalizedBox])

\* The mapped list filtered, or the exception its callback threw.
Filtered(mapped) == IF Thrown(mapped) THEN Throw ELSE Arr(FilterBoolean(mapped))

\* One step of the boxes.map callback of buildDetectionsFromInference.
InferenceEntry(inference, frameSize, box, index) ==
  DetectionOrNull(
    normalizeBBox(IF IsArray(box) /\ Len(box.a) >= 4
                  THEN Obj([x |-> At(box, 0), y |-> At(box, 1),
                            width |-> At(box, 2), height |-> At(box, 3)])
                  ELSE IF box.t \in {"obj", "arr"} THEN extractBoxFromCandidate(box)
                  ELSE Null,
                  frameSize),
    OrElse(AtOpt(Get(inference, "labels"), index),
    OrElse(GetOpt(box, "label"),
    OrElse(GetOpt(box, "name"), PositionalLabel(index)))),
    IF TypeofNumber(AtOpt(box, 4)) THEN At(box, 4)
    ELSE Coalesce(GetOpt(box, "confidence"),
         Coalesce(GetOpt(box, "score"), Null)))

MappedBoxes(inference, boxes) ==
  Filtered([i \in 1..Len(boxes.a) |->
              InferenceEntry(inference, inferFrameSize(inference), boxes.a[i], i - 1)])

buildDetectionsFromInference(inferenceArg) ==
  LET inference == IF inferenceArg = Undefined THEN EmptyObject ELSE inferenceArg
      boxesProp == Get(inference, "boxes")
      boxes == IF IsArray(boxesProp) THEN boxesProp ELSE Null
  IN IF boxesProp = Throw THEN Throw
     ELSE IF ~Truthy(boxes) \/ Len(boxes.a) = 0 THEN Arr(<<>>)
     ELSE MappedBoxes(inference, boxes)

\* One step of the candidates.map callback of parseDetections.
CandidateEntry(frameSize, candidate, index) ==
  DetectionOrNull(
    normalizeBBox(extractBoxFromCandidate(candidate), frameSize),
    Coalesce(GetOpt(candidate, "label"),
    Coalesce(GetOpt(candidate, "name"),
    Coalesce(GetOpt(candidate, "class"),
    Coalesce(GetOpt(candidate, "category"), PositionalLabel(index))))),
    Coalesce(GetOpt(candidate, "confidence"),
    Coalesce(GetOpt(candidate, "score"),
    Coalesce(GetOpt(candidate, "probability"),
    Coalesce(GetOpt(candidate, "confidence_score"), Null)))))

\* The list parseDetections falls back to.
Candidates(inferenceSource) ==
  IF IsArray(inferenceSource) THEN inferenceSource
  ELSE IF IsArray(Get(inferenceSource, "detections")) THEN Get(inferenceSource, "detections")
  ELSE IF IsArray(Get(inferenceSource, "objects")) THEN Get(inferenceSource, "objects")
  ELSE Arr(<<>>)

MappedCandidates(inferenceSource, candidates) ==
  IF ~IsArray(candidates) THEN Arr(<<>>)
  ELSE Filtered([i \in 1..Len(candidates.a) |->
                   CandidateEntry(inferFrameSize(inferenceSource), candidates.a[i], i - 1)])

\* parseDetections: the detections built from boxes win when there are any.
FirstNonEmpty(inferenceObjects, fromCandidates) ==
  IF inferenceObjects = Throw THEN Throw
  ELSE IF Len(inferenceObjects.a) # 0 THEN inferenceObjects
  ELSE fromCandidates

parseDetections(inferenceSource) ==
  IF ~Truthy(inferenceSource) THEN Arr(<<>>)
  ELSE FirstNonEmpty(buildDetectionsFromInference(inferenceSource),
                     MappedCandidates(inferenceSource, Candidates(inferenceSource)))

(***************************************************************************)
(* The connection effect of CameraView.                                    *)
(*                                                                         *)
(* A session is one run of the effect: its wsUrl and its connectWebSocket  *)
(* closure.  The effect runs at mount and again after each change of the   *)
(* cameraId prop; its cleanup runs before the next run and at unmount.     *)
(***************************************************************************)
VARIABLES
  mounted,        \* the component is mounted
  cameraId,       \* the cameraId prop
  sessions,       \* the effect runs so far, in order
  sockets,        \* every WebSocket constructed so far, in order
  wsRef,          \* wsRef.current: an index into sockets, 0 for null
  timers,         \* the pending setTimeout callbacks, in scheduling order
  now,            \* Date.now(), in milliseconds since mount
  connected,      \* useState: connected
  frameCount,     \* useState: frameCount
  fps,            \* useState: fps
  error,          \* useState: error
  aiData,         \* useState: aiData
  fpsCounterRef,  \* fpsCounterRef.current
  imgSrc,         \* the camera whose frame imgRef.current shows, "" for none
  lastMessage,    \* event.data of the last message ws.onmessage was called with
  analysis,       \* aiSource, useState: analysisStatus/Result/Error, the requests sent
  payload,        \* normalizer run: the input
  result,         \* normalizer run: the output of parseDetections
  phase,          \* normalizer run: "input" or "done"
  tiles,          \* dashboard: the state of each camera's CameraView instance
  hub             \* broadcast hub of one camera: its counters and subscriptions

viewVars == <<mounted, cameraId, sessions, sockets, wsRef, timers, now, connected,
              frameCount, fps, error, aiData, fpsCounterRef, imgSrc, lastMessage, analysis>>
normVars == <<payload, result, phase>>
gridVars == <<tiles>>
hubVars == <<hub>>
vars == <<viewVars, normVars, gridVars, hubVars>>

RECONNECT_DELAY_MS == 3000
FPS_WINDOW_MS == 1000

\* Bounds of the model: the sockets one view constructs, the runs of its
\* effect, the clock in ticks of half the reconnect delay, and, for the
\* stream, the clock in ticks of half an FPS window, the frame numbers the
\* server sends and the frames it sends within one FPS window.
MaxSockets == 3
MaxEffects == 2
MaxTicks == 2
MaxHalfTicks == 7
MaxFrameCount == 2
MaxWindowCount == 2

\* The camera ids the prop ranges over.  A WebSocket URL with a fragment makes
\* the constructor throw a SyntaxError.
CameraIds == {"camera1", "camera2", "cam#3"}
ConstructorThrows(id) == id = "cam#3"

\* ---- the effect's pieces, as functions of the state they change ----

\* ws.close(): a socket that is connecting or open starts closing; otherwise
\* nothing happens.
close(socks, ref) ==
  IF ref # 0 /\ socks[ref].readyState \in {"CONNECTING", "OPEN"}
  THEN [socks EXCEPT ![ref].readyState = "CLOSING"]
  ELSE socks

\* The effect cleanup: if (wsRef.current) wsRef.current.close().
Cleanup(socks, ref) == IF ref # 0 THEN close(socks, ref) ELSE socks

\* connectWebSocket() of session g, whose wsUrl addresses camera url: the
\* sockets, wsRef.current and the error state after the call.  When the
\* constructor throws, the catch block sets the error and nothing else
\* happens.  established tells an opened connection from a handshake, cause
\* ("effect" or "timer") is the caller.
connectWebSocket(socks, g, url, cause) ==
  IF ConstructorThrows(url) THEN socks
  ELSE Append(socks, [session |-> g, url |-> url, readyState |-> "CONNECTING",
                      established |-> FALSE, cause |-> cause])
connectRef(socks, ref, url) == IF ConstructorThrows(url) THEN ref ELSE Len(socks) + 1
connectError(err, url) == IF ConstructorThrows(url) THEN Str("Failed to connect") ELSE err

\* Mutant of ScheduleReconnect: the reconnect is scheduled with no delay.
ScheduleReconnect_noDelay(tms, i) ==
  Append(tms, [by |-> i, session |-> sockets[i].session, due |-> now])

\* setTimeout(() => connectWebSocket(), 3000) in the onclose of socket i.
ScheduleReconnect(tms, i) ==
  Append(tms, [by |-> i, session |-> sockets[i].session, due |-> now + RECONNECT_DELAY_MS])

\* What the session is doing, from what it owns.
LiveSockets(g) == {i \in 1..Len(sockets) :
                     sockets[i].session = g /\ sockets[i].readyState \in {"CONNECTING", "OPEN"}}
PendingTimers(g) == {j \in 1..Len(timers) : timers[j].session = g}
Activity(g) ==
  IF \E i \in LiveSockets(g) : sockets[i].readyState = "OPEN" THEN "Open"
  ELSE IF LiveSockets(g) # {} THEN "Connecting"
  ELSE IF PendingTimers(g) # {} THEN "Reconnecting"
  ELSE IF \E i \in 1..Len(sockets) : sockets[i].session = g /\ sockets[i].readyState = "CLOSING"
       THEN "Closing"
  ELSE "None"
SessionState(g) == IF sessions[g].torn THEN "Closing" ELSE Activity(g)

current == Len(sessions)

\* useMemo: inferenceSource
inferenceSource(ai) ==
  IF ~Truthy(GetOpt(ai, "payload")) THEN Null
  ELSE IF Truthy(Get(Get(ai, "payload"), "inference")) THEN Get(Get(ai, "payload"), "inference")
  ELSE IF Truthy(Get(Get(ai, "payload"), "data")) THEN Get(Get(ai, "payload"), "data")
  ELSE Get(ai, "payload")

\* useMemo: detections
detections == parseDetections(inferenceSource(aiData))


\* ---- the messages a camera's server sends ----
HailoPayload ==
  Obj([boxes |-> Arr(<<Arr(<<Num(100), Num(50), Num(40), Num(40), Num(0), Rat(91, 100)>>)>>),
       labels |-> Arr(<<Str("person")>>),
       resolution |-> Arr(<<Num(1280), Num(720)>>)])
AiDatas == {Obj([payload |-> HailoPayload, timestamp |-> Str("t1")])}
InvalidText == [t |-> "text"]
\* No message event was delivered yet.
NoMessage == [t |-> "none"]
FrameMessages(url) ==
  {Obj([type |-> Str("frame"), data |-> Str(url), frame_count |-> Num(n)]) :
     n \in 1..MaxFrameCount}
  \cup {Obj([type |-> Str("frame"), data |-> Str(url), frame_count |-> Num(n), ai_data |-> ai]) :
     n \in 1..MaxFrameCount, ai \in AiDatas}
AiMessages ==
  {Obj([type |-> Str("ai"), payload |-> Get(ai, "payload"), timestamp |-> Get(ai, "timestamp")]) :
     ai \in AiDatas}
OtherMessages ==
  {Obj([type |-> Str("connected")]),
   Obj([type |-> Str("error"), message |-> Str("unknown camera")]),
   Obj([type |-> Str("frame"), data |-> Str(""), frame_count |-> Num(1)]),
   Null, InvalidText}
Messages(url) == FrameMessages(url) \cup AiMessages \cup OtherMessages

\* JSON.parse(event.data)
JSONparse(text) == IF text = InvalidText THEN Throw ELSE text

\* Mutant of IsFrame: a frame message counts whether or not it carries data.
IsFrame_anyData(data) ==
  IF data = Throw \/ IsNullish(data) THEN FALSE
  ELSE Get(data, "type") = Str("frame")

\* data.type === 'frame' && data.data, with the TypeError of data === null
IsFrame(data) ==
  IF data = Throw \/ IsNullish(data) THEN FALSE
  ELSE Get(data, "type") = Str("frame") /\ Truthy(Get(data, "data"))

\* Mutant of RoundedRate: the count of the window is shown as it is, whatever
\* the time the window took.
RoundedRate_countOnly(count, elapsedMs) == count

\* Math.round(count / elapsed) with elapsed = elapsedMs / 1000 >= 1
RoundedRate(count, elapsedMs) == (2 * count * 1000 + elapsedMs) \div (2 * elapsedMs)

\* The detection data a message carries, Null for none.
DetectionOf(data) ==
  IF data = Throw \/ IsNullish(data) THEN Null
  ELSE IF Get(data, "type") = Str("ai") THEN data
  ELSE IF IsFrame(data) /\ Truthy(Get(data, "ai_data")) THEN Get(data, "ai_data")
  ELSE Null

\* ---- the OpenAI analysis of a view ----

\* Bound of the analysis: the requests one view sends.
MaxRequests == 2

\* The values of the aiSource selector of MultiCameraView.
AiSources == {"hailo", "recamera"}

\* The analysis hooks of a view that has just mounted; requests are the
\* fetch calls it made, each with the cameraId and aiSource its prompt was
\* built from and whether its promise is still pending.
AnalysisMounted ==
  [aiSource |-> "hailo", analysisStatus |-> "idle", analysisResult |-> Null,
   analysisError |-> Null, requests |-> <<>>]

\* The effect on [cameraId, aiSource]
ResetAnalysis(a) ==
  [a EXCEPT !.analysisResult = Null, !.analysisStatus = "idle", !.analysisError = Null]

\* handleOpenAIAnalysis up to its await: nothing while loading, else the
\* state is set and the request sent.
StartAnalysis(a, id) ==
  IF a.analysisStatus = "loading" THEN a
  ELSE [a EXCEPT !.analysisStatus = "loading", !.analysisError = Null,
                 !.analysisResult = Null,
                 !.requests = Append(@, [cameraId |-> id, aiSource |-> a.aiSource,
                                         pending |-> TRUE])]

\* The response body of request r: the recommendation for its prompt.
Recommendation(r) == Obj([cameraId |-> Str(r.cameraId), aiSource |-> Str(r.aiSource)])

\* err?.message || 'Unknown error'
ErrorMessage(outcome) ==
  IF outcome = "status" THEN Str("Status 500")
  ELSE IF outcome = "network" THEN Str("Failed to fetch")
  ELSE Str("Unknown error")

\* handleOpenAIAnalysis after its await, for request k: the result is set, or
\* the error of a failed request; the setters do nothing after unmount.
Outcomes == {"ok", "status", "network", "thrown"}
SettleAnalysis(a, k, outcome, isMounted) ==
  IF ~isMounted THEN [a EXCEPT !.requests[k].pending = FALSE]
  ELSE IF outcome = "ok"
  THEN [a EXCEPT !.requests[k].pending = FALSE,
                 !.analysisResult = Recommendation(a.requests[k]),
                 !.analysisStatus = "done"]
  ELSE [a EXCEPT !.requests[k].pending = FALSE,
                 !.analysisError = ErrorMessage(outcome),
                 !.analysisStatus = "error"]

\* ---- the actions ----

\* ws.onopen of socket i
WsOpen(i) ==
  /\ sockets[i].readyState = "CONNECTING"
  /\ sockets' = [sockets EXCEPT ![i].readyState = "OPEN", ![i].established = TRUE]
  /\ IF mounted
     THEN connected' = TRUE /\ error' = Null
     ELSE UNCHANGED <<connected, error>>
  /\ UNCHANGED <<mounted, cameraId, sessions, wsRef, timers, now, frameCount, fps, aiData,
                 fpsCounterRef, imgSrc, lastMessage, analysis, normVars, gridVars, hubVars>>

\* Mutant of WsClose: onclose also clears what the last Frame left, the frame
\* counter, the FPS, the FPS window and the detections.
WsClose_clearsStream(i, failed) ==
  /\ sockets[i].readyState \in {"CONNECTING", "OPEN", "CLOSING"}
  /\ ~sockets[i].established => failed
  /\ sockets' = [sockets EXCEPT ![i].readyState = "CLOSED", ![i].established = FALSE]
  /\ IF mounted
     THEN /\ error' = IF failed THEN Str("Connection error") ELSE error
          /\ connected' = FALSE
          /\ frameCount' = Num(0) /\ fps' = 0 /\ aiData' = Null
     ELSE UNCHANGED <<connected, error, frameCount, fps, aiData>>
  /\ fpsCounterRef' = [count |-> 0, lastTime |-> now]
  /\ timers' = ScheduleReconnect(timers, i)
  /\ UNCHANGED <<mounted, cameraId, sessions, wsRef, now, imgSrc, lastMessage, analysis,
                 normVars, gridVars, hubVars>>

\* The socket i is closed: ws.onerror first when the connection failed (always
\* so for a socket that never opened), then ws.onclose, in one task.
WsClose(i, failed) ==
  /\ sockets[i].readyState \in {"CONNECTING", "OPEN", "CLOSING"}
  /\ ~sockets[i].established => failed
  /\ sockets' = [sockets EXCEPT ![i].readyState = "CLOSED", ![i].established = FALSE]
  /\ IF mounted
     THEN /\ error' = IF failed THEN Str("Connection error") ELSE error
          /\ connected' = FALSE
     ELSE UNCHANGED <<connected, error>>
  /\ timers' = ScheduleReconnect(timers, i)
  /\ UNCHANGED <<mounted, cameraId, sessions, wsRef, now, frameCount, fps, aiData,
                 fpsCounterRef, imgSrc, lastMessage, analysis, normVars, gridVars, hubVars>>

\* ws.onmessage of socket i with event.data = text
WsMessage(i, text) ==
  LET data == JSONparse(text)
      count == fpsCounterRef.count + 1
      elapsedMs == now - fpsCounterRef.lastTime
  IN
  /\ sockets[i].readyState = "OPEN"
  /\ IF IsFrame(data)
     THEN /\ fpsCounterRef' = IF elapsedMs >= FPS_WINDOW_MS
                              THEN [count |-> 0, lastTime |-> now]
                              ELSE [fpsCounterRef EXCEPT !.count = count]
          /\ IF mounted
             THEN /\ imgSrc' = Get(data, "data").s
                  /\ frameCount' = Get(data, "frame_count")
                  /\ fps' = IF elapsedMs >= FPS_WINDOW_MS
                            THEN RoundedRate(count, elapsedMs) ELSE fps
                  /\ aiData' = OrElse(Get(data, "ai_data"), Null)
             ELSE UNCHANGED <<imgSrc, frameCount, fps, aiData>>
     ELSE UNCHANGED <<fpsCounterRef, imgSrc, frameCount, fps, aiData>>
  /\ lastMessage' = text
  /\ UNCHANGED <<mounted, cameraId, sessions, sockets, wsRef, timers, now, connected, error,
                 analysis, normVars, gridVars, hubVars>>

\* Mutant of TimerFire: the timer is an interval, it stays pending after its
\* callback ran.
TimerFire_interval(j) ==
  LET g == timers[j].session
      url == sessions[g].url
  IN
  /\ now >= timers[j].due
  /\ Len(sockets) < MaxSockets
  /\ timers' = [timers EXCEPT ![j].due = now + RECONNECT_DELAY_MS]
  /\ sockets' = connectWebSocket(sockets, g, url, "timer")
  /\ wsRef' = connectRef(sockets, wsRef, url)
  /\ error' = IF mounted THEN connectError(error, url) ELSE error
  /\ UNCHANGED <<mounted, cameraId, sessions, now, connected, frameCount, fps, aiData,
                 fpsCounterRef, imgSrc, lastMessage, analysis, normVars, gridVars, hubVars>>

\* The callback of pending timer j runs: connectWebSocket() of its session.
TimerFire(j) ==
  LET g == timers[j].session
      url == sessions[g].url
  IN
  /\ now >= timers[j].due
  /\ Len(sockets) < MaxSockets
  /\ timers' = [k \in 1..(Len(timers) - 1) |-> IF k < j THEN timers[k] ELSE timers[k + 1]]
  /\ sockets' = connectWebSocket(sockets, g, url, "timer")
  /\ wsRef' = connectRef(sockets, wsRef, url)
  /\ error' = IF mounted THEN connectError(error, url) ELSE error
  /\ UNCHANGED <<mounted, cameraId, sessions, now, connected, frameCount, fps, aiData,
                 fpsCounterRef, imgSrc, lastMessage, analysis, normVars, gridVars, hubVars>>

\* Time passes: ms milliseconds, up to the time horizon.
Tick(ms, horizon) ==
  /\ now + ms <= horizon
  /\ now' = now + ms
  /\ UNCHANGED <<mounted, cameraId, sessions, sockets, wsRef, timers, connected,
                 frameCount, fps, error, aiData, fpsCounterRef, imgSrc, lastMessage, analysis, normVars, gridVars, hubVars>>

\* The session is torn down: history of what it was doing.
TornDown(ss) == [ss EXCEPT ![current].torn = TRUE, ![current].tornIn = Activity(current)]

\* The component unmounts: the effect cleanup runs.
Unmount ==
  /\ mounted
  /\ mounted' = FALSE
  /\ sockets' = Cleanup(sockets, wsRef)
  /\ sessions' = TornDown(sessions)
  /\ UNCHANGED <<cameraId, wsRef, timers, now, connected, frameCount, fps, error,
                 aiData, fpsCounterRef, imgSrc, lastMessage, analysis, normVars, gridVars, hubVars>>

\* The cameraId prop changes to id: the cleanup of the running effect, then
\* the effect again with the new wsUrl.
ChangeCameraId(id) ==
  LET closed == Cleanup(sockets, wsRef) IN
  /\ mounted
  /\ id # cameraId
  /\ Len(sessions) < MaxEffects
  /\ Len(sockets) < MaxSockets
  /\ cameraId' = id
  /\ sessions' = Append(TornDown(sessions),
                        [url |-> id, torn |-> FALSE, tornIn |-> "None"])
  /\ sockets' = connectWebSocket(closed, current + 1, id, "effect")
  /\ wsRef' = connectRef(closed, wsRef, id)
  /\ error' = connectError(error, id)
  /\ analysis' = ResetAnalysis(analysis)
  /\ UNCHANGED <<mounted, timers, now, connected, frameCount, fps, aiData,
                 fpsCounterRef, imgSrc, lastMessage, normVars, gridVars, hubVars>>

NormIdle == payload = Null /\ result = Arr(<<>>) /\ phase = "idle"
GridIdle == tiles = <<>>
HubIdle == hub = <<>>

\* The state after the first render and the first run of the effect.
ViewInit(id) ==
  /\ mounted = TRUE
  /\ cameraId = id
  /\ sessions = <<[url |-> id, torn |-> FALSE, tornIn |-> "None"]>>
  /\ sockets = connectWebSocket(<<>>, 1, id, "effect")
  /\ wsRef = connectRef(<<>>, 0, id)
  /\ timers = <<>>
  /\ now = 0
  /\ connected = FALSE
  /\ frameCount = Num(0)
  /\ fps = 0
  /\ error = connectError(Null, id)
  /\ aiData = Null
  /\ fpsCounterRef = [count |-> 0, lastTime |-> 0]
  /\ imgSrc = ""
  /\ lastMessage = NoMessage
  /\ analysis = AnalysisMounted

\* The server sends at most cap frames within one FPS window.
WithinWindow(text, cap) ==
  IsFrame(JSONparse(text)) =>
    \/ fpsCounterRef.count < cap
    \/ now - fpsCounterRef.lastTime >= FPS_WINDOW_MS

(***************************************************************************)
(* Spec: one view from mount to unmount, its cameraId changing, its        *)
(* sockets opening, failing and closing, its reconnect timers firing; the  *)
(* stream is one frame per window.                                         *)
(***************************************************************************)
SparseMessages(url) ==
  {Obj([type |-> Str("frame"), data |-> Str(url), frame_count |-> Num(1)])}

Init == (\E id \in CameraIds : ViewInit(id)) /\ NormIdle /\ GridIdle /\ HubIdle

Next ==
  \/ \E i \in 1..Len(sockets) : WsOpen(i)
  \/ \E i \in 1..Len(sockets), failed \in BOOLEAN : WsClose(i, failed)
  \/ \E i \in 1..Len(sockets) : \E text \in SparseMessages(sockets[i].url) :
        WithinWindow(text, 1) /\ WsMessage(i, text)
  \/ \E j \in 1..Len(timers) : TimerFire(j)
  \/ Tick(RECONNECT_DELAY_MS \div 2, MaxTicks * (RECONNECT_DELAY_MS \div 2))
  \/ Unmount
  \/ \E id \in CameraIds : ChangeCameraId(id)

Spec == Init /\ [][Next]_vars

(***************************************************************************)
(* SpecStream: one view with a fixed cameraId receiving every kind of      *)
(* message, the clock in half seconds.                                     *)
(***************************************************************************)
StreamNext ==
  \/ \E i \in 1..Len(sockets) : WsOpen(i)
  \/ \E i \in 1..Len(sockets), failed \in BOOLEAN : WsClose(i, failed)
  \/ \E i \in 1..Len(sockets) : \E text \in Messages(sockets[i].url) :
        WithinWindow(text, MaxWindowCount) /\ WsMessage(i, text)
  \/ \E j \in 1..Len(timers) : TimerFire(j)
  \/ Tick(FPS_WINDOW_MS \div 2, MaxHalfTicks * (FPS_WINDOW_MS \div 2))
  \/ Unmount

SpecStream == Init /\ [][StreamNext]_vars

(***************************************************************************)
(* SpecAnalysis: one view whose OpenAI Analysis button is clicked while    *)
(* its cameraId and aiSource props change and its requests are answered.   *)
(***************************************************************************)
\* A click on the OpenAI Analysis button.
ClickAnalysis ==
  /\ mounted
  /\ Len(analysis.requests) < MaxRequests
  /\ analysis' = StartAnalysis(analysis, cameraId)
  /\ UNCHANGED <<mounted, cameraId, sessions, sockets, wsRef, timers, now, connected,
                 frameCount, fps, error, aiData, fpsCounterRef, imgSrc, lastMessage,
                 normVars, gridVars, hubVars>>

\* The fetch of request k settles with the outcome.
AnalysisSettles(k, outcome) ==
  /\ analysis.requests[k].pending
  /\ analysis' = SettleAnalysis(analysis, k, outcome, mounted)
  /\ UNCHANGED <<mounted, cameraId, sessions, sockets, wsRef, timers, now, connected,
                 frameCount, fps, error, aiData, fpsCounterRef, imgSrc, lastMessage,
                 normVars, gridVars, hubVars>>

\* The aiSource selector is set to source: the view renders with the new prop
\* and the effect on [cameraId, aiSource] runs.
ChangeAiSource(source) ==
  /\ mounted
  /\ source # analysis.aiSource
  /\ analysis' = ResetAnalysis([analysis EXCEPT !.aiSource = source])
  /\ UNCHANGED <<mounted, cameraId, sessions, sockets, wsRef, timers, now, connected,
                 frameCount, fps, error, aiData, fpsCounterRef, imgSrc, lastMessage,
                 normVars, gridVars, hubVars>>

AnalysisNext ==
  \/ ClickAnalysis
  \/ \E k \in 1..Len(analysis.requests), outcome \in Outcomes : AnalysisSettles(k, outcome)
  \/ \E source \in AiSources : ChangeAiSource(source)
  \/ \E id \in CameraIds : ChangeCameraId(id)
  \/ Unmount

SpecAnalysis == Init /\ [][AnalysisNext]_vars

(***************************************************************************)
(* SpecGrid: the dashboard of MultiCameraView, one CameraView instance per *)
(* configured camera, each keyed by its camera id, so that its cameraId    *)
(* never changes and it stays mounted.  Every instance has its own hooks   *)
(* (useState, useRef) and its own run of the connection effect; Date.now() *)
(* is the one clock of the page.                                           *)
(***************************************************************************)
\* Bounds of the dashboard: the sockets one tile constructs and the clock in
\* ticks of the reconnect delay.
MaxTileSockets == 2
MaxGridTicks == 1

\* const cameras = [{ id: 'camera1' }, { id: 'camera2' }, { id: 'camera3' }]
Cameras == {"camera1", "camera2", "camera3"}

\* The hooks of one CameraView after the first render and the first run of
\* the effect.
TileMounted ==
  [sockets |-> <<[readyState |-> "CONNECTING", established |-> FALSE]>>,
   wsRef |-> 1, timers |-> <<>>, connected |-> FALSE, frameCount |-> Num(0),
   fps |-> 0, error |-> Null, aiData |-> Null,
   fpsCounterRef |-> [count |-> 0, lastTime |-> 0], imgSrc |-> ""]

\* ws.onopen of socket i of a tile with hooks v
TileOnOpen(v, i) ==
  [v EXCEPT !.sockets[i] = [readyState |-> "OPEN", established |-> TRUE],
            !.connected = TRUE, !.error = Null]

\* ws.onerror (when failed) and ws.onclose of socket i at time t
TileOnClose(v, i, failed, t) ==
  [v EXCEPT !.sockets[i] = [readyState |-> "CLOSED", established |-> FALSE],
            !.error = IF failed THEN Str("Connection error") ELSE @,
            !.connected = FALSE,
            !.timers = Append(@, t + RECONNECT_DELAY_MS)]

\* Mutant of TileOnFrame: the frame counter counts the frames received
\* instead of taking the number the frame carries.
TileOnFrame_countLocally(v, data, count, elapsedMs, t) ==
  [v EXCEPT !.imgSrc = Get(data, "data").s,
            !.frameCount = Num(@.n + 1),
            !.fps = IF elapsedMs >= FPS_WINDOW_MS THEN RoundedRate(count, elapsedMs) ELSE @,
            !.fpsCounterRef = IF elapsedMs >= FPS_WINDOW_MS
                              THEN [count |-> 0, lastTime |-> t]
                              ELSE [@ EXCEPT !.count = count],
            !.aiData = OrElse(Get(data, "ai_data"), Null)]

\* ws.onmessage with a frame: count frames so far in the window, elapsedMs
\* since the window began at time t.
TileOnFrame(v, data, count, elapsedMs, t) ==
  [v EXCEPT !.imgSrc = Get(data, "data").s,
            !.frameCount = Get(data, "frame_count"),
            !.fps = IF elapsedMs >= FPS_WINDOW_MS THEN RoundedRate(count, elapsedMs) ELSE @,
            !.fpsCounterRef = IF elapsedMs >= FPS_WINDOW_MS
                              THEN [count |-> 0, lastTime |-> t]
                              ELSE [@ EXCEPT !.count = count],
            !.aiData = OrElse(Get(data, "ai_data"), Null)]
TileOnMessage(v, text, t) ==
  IF IsFrame(JSONparse(text))
  THEN TileOnFrame(v, JSONparse(text), v.fpsCounterRef.count + 1,
                   t - v.fpsCounterRef.lastTime, t)
  ELSE v

\* The callback of pending timer j: connectWebSocket().
TileOnTimer(v, j) ==
  [v EXCEPT !.timers = [k \in 1..(Len(@) - 1) |-> IF k < j THEN @[k] ELSE @[k + 1]],
            !.sockets = Append(@, [readyState |-> "CONNECTING", established |-> FALSE]),
            !.wsRef = Len(v.sockets) + 1]

\* Mutant of SetTile: the hooks are kept at module level, one set for all
\* instances.
SetTile_moduleLevel(c, v) == [d \in Cameras |-> v]

\* The handlers of the instance of camera c write the hooks of that instance.
SetTile(c, v) == [tiles EXCEPT ![c] = v]

\* What the server of camera c sends: frames with detections, numbered from
\* one, and text that is not JSON.
TileMessages(c) ==
  {Obj([type |-> Str("frame"), data |-> Str(c),
        frame_count |-> Num(tiles[c].frameCount.n + 1), ai_data |-> ai]) : ai \in AiDatas}
  \cup {InvalidText}

\* ws.onopen of socket i of camera c
TileOpen(c, i) ==
  /\ tiles[c].sockets[i].readyState = "CONNECTING"
  /\ tiles' = SetTile(c, TileOnOpen(tiles[c], i))
  /\ UNCHANGED <<viewVars, normVars, hubVars>>

\* Socket i of camera c fails or is closed by the server.
TileClose(c, i, failed) ==
  /\ tiles[c].sockets[i].readyState \in {"CONNECTING", "OPEN"}
  /\ ~tiles[c].sockets[i].established => failed
  /\ tiles' = SetTile(c, TileOnClose(tiles[c], i, failed, now))
  /\ UNCHANGED <<viewVars, normVars, hubVars>>

\* ws.onmessage of socket i of camera c; the server has sent at most one
\* frame per socket the tile constructed.
TileMessage(c, i, text) ==
  /\ tiles[c].sockets[i].readyState = "OPEN"
  /\ IsFrame(JSONparse(text)) => tiles[c].frameCount.n < Len(tiles[c].sockets)
  /\ tiles' = SetTile(c, TileOnMessage(tiles[c], text, now))
  /\ UNCHANGED <<viewVars, normVars, hubVars>>

\* The reconnect timer j of camera c runs.
TileTimer(c, j) ==
  /\ now >= tiles[c].timers[j]
  /\ Len(tiles[c].sockets) < MaxTileSockets
  /\ tiles' = SetTile(c, TileOnTimer(tiles[c], j))
  /\ UNCHANGED <<viewVars, normVars, hubVars>>

GridInit ==
  /\ ViewInit("camera1")
  /\ NormIdle /\ HubIdle
  /\ tiles = [c \in Cameras |-> TileMounted]

GridNext ==
  \/ \E c \in Cameras : \E i \in 1..Len(tiles[c].sockets) : TileOpen(c, i)
  \/ \E c \in Cameras : \E i \in 1..Len(tiles[c].sockets), failed \in BOOLEAN :
        TileClose(c, i, failed)
  \/ \E c \in Cameras : \E i \in 1..Len(tiles[c].sockets), text \in TileMessages(c) :
        TileMessage(c, i, text)
  \/ \E c \in Cameras : \E j \in 1..Len(tiles[c].timers) : TileTimer(c, j)
  \/ Tick(RECONNECT_DELAY_MS, MaxGridTicks * RECONNECT_DELAY_MS)

SpecGrid == GridInit /\ [][GridNext]_vars

(***************************************************************************)
(* SpecHub: the broadcast hub of one camera (server_multi_rtsp.py, which   *)
(* the start scripts launch) with its subscribers.  A subscriber is a      *)
(* viewer's socket: what the hub delivers arrives at ws.onmessage of that  *)
(* viewer.  Subscribe registers a sink, Publish fans an event out to the   *)
(* queue of every current subscriber, discarding the oldest queued Frame   *)
(* of a full queue before enqueuing the new event; a Detection is never    *)
(* the one discarded and Publish never waits, so an event is enqueued also *)
(* when a full queue holds no Frame; Deliver sends the head of a queue to  *)
(* the viewer; Unsubscribe removes the sink and releases its queue.        *)
(***************************************************************************)
\* Bounds of the hub: the capacity of a subscriber's queue, the Frames and the
\* Detections the ingest publishes.
QueueCapacity == 2
MaxSeq == 5
MaxDetections == 2

Subscribers == {"A", "B"}

Frame(n) == [kind |-> "frame", seq |-> n]
Detection(k) == [kind |-> "detection", seq |-> k]

\* The message the hub sends for an event of the camera.
WireMessage(e) ==
  IF e.kind = "frame"
  THEN Obj([type |-> Str("frame"), data |-> Str("camera1"), frame_count |-> Num(e.seq)])
  ELSE Obj([type |-> Str("ai"), payload |-> HailoPayload, timestamp |-> Str("t1")])

\* A viewer whose socket has just opened.
ViewerOpened == TileOnOpen(TileMounted, 1)

NoSubscription ==
  [status |-> "none", queue |-> <<>>, joined |-> 0, missed |-> 0, log |-> <<>>,
   view |-> TileMounted]

Full(q) == Len(q) >= QueueCapacity
FramesAt(q) == {i \in 1..Len(q) : q[i].kind = "frame"}
Least(S) == CHOOSE i \in S : \A j \in S : i <= j
Without(q, i) == [k \in 1..(Len(q) - 1) |-> IF k < i THEN q[k] ELSE q[k + 1]]

\* Mutant of Offer: nothing is ever discarded.
Offer_unbounded(sub, e) == [sub EXCEPT !.queue = Append(@, e)]

\* Publish on one subscriber's queue: drop-oldest on a full queue (missed
\* counts the Frames discarded), plain enqueue otherwise.
Offer(sub, e) ==
  IF Full(sub.queue) /\ FramesAt(sub.queue) # {}
  THEN [sub EXCEPT !.queue = Append(Without(@, Least(FramesAt(@))), e), !.missed = @ + 1]
  ELSE [sub EXCEPT !.queue = Append(@, e)]

\* Mutant of Fanout: a full queue holds the Frame back from every subscriber.
Fanout_stallOnFull(subs, e) ==
  IF e.kind = "frame" /\ \E s \in Subscribers : subs[s].status = "subscribed" /\ Full(subs[s].queue)
  THEN subs
  ELSE [s \in Subscribers |->
          IF subs[s].status = "subscribed" THEN Offer(subs[s], e) ELSE subs[s]]

\* Publish: the event goes to every current subscriber.
Fanout(subs, e) ==
  [s \in Subscribers |-> IF subs[s].status = "subscribed" THEN Offer(subs[s], e) ELSE subs[s]]

\* Subscribe: a new sink with an empty queue, joined after Frame seq.
Subscribed(sub, seq) ==
  [sub EXCEPT !.status = "subscribed", !.joined = seq, !.view = ViewerOpened]

\* The head of the queue is sent and arrives at the viewer's ws.onmessage; log
\* records the sequence numbers of the Frames sent.
Delivered(sub, e, t) ==
  [sub EXCEPT !.queue = Tail(@),
              !.log = IF e.kind = "frame" THEN Append(@, e.seq) ELSE @,
              !.view = TileOnMessage(@, WireMessage(e), t)]

Subscribe(s) ==
  /\ hub.subs[s].status = "none"
  /\ hub' = [hub EXCEPT !.subs[s] = Subscribed(@, hub.seq)]
  /\ UNCHANGED <<viewVars, normVars, gridVars>>

PublishFrame ==
  /\ hub.seq < MaxSeq
  /\ hub' = [hub EXCEPT !.seq = @ + 1, !.subs = Fanout(@, Frame(hub.seq + 1))]
  /\ UNCHANGED <<viewVars, normVars, gridVars>>

PublishDetection ==
  /\ hub.det < MaxDetections
  /\ hub' = [hub EXCEPT !.det = @ + 1, !.subs = Fanout(@, Detection(hub.det + 1))]
  /\ UNCHANGED <<viewVars, normVars, gridVars>>

Deliver(s) ==
  /\ hub.subs[s].status = "subscribed"
  /\ hub.subs[s].queue # <<>>
  /\ hub' = [hub EXCEPT !.subs[s] = Delivered(@, Head(hub.subs[s].queue), now)]
  /\ UNCHANGED <<viewVars, normVars, gridVars>>

\* Unsubscribe removes the sink and releases what the hub held for it; it is
\* idempotent: a second call changes nothing.
Unsubscribe(s) ==
  /\ hub.subs[s].status \in {"subscribed", "unsubscribed"}
  /\ hub' = [hub EXCEPT !.subs[s] = [NoSubscription EXCEPT !.status = "unsubscribed"]]
  /\ UNCHANGED <<viewVars, normVars, gridVars>>

HubInit ==
  /\ ViewInit("camera1")
  /\ NormIdle /\ GridIdle
  /\ hub = [seq |-> 0, det |-> 0, subs |-> [s \in Subscribers |-> NoSubscription]]

HubNext ==
  \/ \E s \in Subscribers : Subscribe(s)
  \/ PublishFrame
  \/ PublishDetection
  \/ \E s \in Subscribers : Deliver(s)
  \/ \E s \in Subscribers : Unsubscribe(s)

SpecHub == HubInit /\ [][HubNext]_vars

(***************************************************************************)
(* SpecNorm: parseDetections applied to one payload drawn from the         *)
(* families below.                                                         *)
(***************************************************************************)
\* Bounds of the payloads: pixel coordinates -1..MaxCoord, frame dimensions
\* 2..MaxDim (and 3/2), unit coordinates k/UnitSteps, lists of up to
\* MaxEntries entries.
MaxCoord == 3
MaxDim == 3
UnitSteps == 4
MaxEntries == 2

SeqsUpTo(S, n) == UNION {[1..k -> S] : k \in 0..n}

Quad(x, y, w, h) == Arr(<<x, y, w, h>>)
PixelCoords == {Num(k) : k \in (-1)..MaxCoord}
Dims == {Rat(3, 2)} \cup {Num(k) : k \in 2..MaxDim}
UnitCoords == {Rat(k, UnitSteps) : k \in 0..UnitSteps}

\* One [x, y, w, h] array detection in pixels with a resolution [W, H].
ResolutionForms(q, W, H) ==
  {Obj([boxes |-> Arr(<<q>>), resolution |-> Arr(<<W, H>>)]),
   Obj([detections |-> Arr(<<q>>), resolution |-> Arr(<<W, H>>)]),
   Obj([detections |-> Arr(<<Obj([bbox |-> q])>>), resolution |-> Arr(<<W, H>>)])}

\* One detection already in [0,1], no reference frame in the payload.
UnitForms(x, y, w, h) ==
  {Arr(<<Quad(x, y, w, h)>>),
   Obj([boxes |-> Arr(<<Quad(x, y, w, h)>>)]),
   Obj([detections |-> Arr(<<Obj([x |-> x, y |-> y, width |-> w, height |-> h])>>)]),
   Obj([objects |-> Arr(<<Obj([box |-> Obj([left |-> x, top |-> y, w |-> w, h |-> h]),
                               label |-> Str("cat"), score |-> Rat(1, 2)])>>)])}

\* Tuples [x, y, w, h, class, confidence] with parallel labels, as the Hailo
\* client sends them.
TuplePayloads ==
  {HailoPayload} \cup
  {Obj([boxes |-> Arr(<<Arr(<<Num(2), Num(1), Num(1), Num(1), cls, conf>>),
                        Arr(<<Num(0), Num(0), Num(4), Num(2), Num(1), Rat(1, 2)>>)>>),
        labels |-> Arr(<<Str("person"), Str("cell phone")>>),
        resolution |-> Arr(<<Num(4), Num(2)>>)]) :
     cls \in {Num(0), Num(1), Num(2)}, conf \in {Rat(91, 100), Rat(1, 4), Num(1)}}

\* Entries of every dialect, well formed and malformed.
MixedEntries ==
  {Null, Str("junk"), Num(7), Bool(TRUE), EmptyObject,
   Arr(<<Num(1), Num(2)>>),
   Arr(<<Num(0), Num(0), NaN, Num(1)>>),
   Arr(<<Num(1), Num(2), Null, Str("5")>>),
   Quad(Infinity(1), Num(0), Num(1), Infinity(-1)),
   Quad(Rat(1, 4), Rat(1, 4), Rat(1, 2), Rat(1, 2)),
   Arr(<<Num(1), Num(1), Num(2), Num(1), Num(1), Rat(1, 2)>>),
   Obj([x |-> Num(1), y |-> Num(1), width |-> Num(2), height |-> Num(1),
        label |-> Str("dog"), confidence |-> Rat(3, 4)]),
   Obj([x1 |-> Num(10), y1 |-> Num(10), x2 |-> Num(110), y2 |-> Num(60)]),
   Obj([cx |-> Num(2), cy |-> Num(1), width |-> Num(2), height |-> Num(1), name |-> Str("cup")]),
   Obj([x |-> Num(1), y |-> Num(0), width |-> Num(-1), height |-> Num(1)]),
   Obj([left |-> Num(3), top |-> Num(1), right |-> Num(1), bottom |-> Num(2)]),
   Obj([x |-> Num(1), y |-> Num(1), width |-> Num(1)]),
   Obj([x |-> Str("a"), y |-> Num(1), width |-> Num(1), height |-> Num(1)]),
   Obj([bbox |-> Null, box |-> Quad(Num(0), Num(1), Num(2), Num(1)), score |-> Rat(1, 4)]),
   Obj([rect |-> Str("0,0,1,1"), class |-> Str("car")])}

\* The reference frame fields a payload may carry.
FrameFields ==
  {EmptyObject,
   Obj([resolution |-> Arr(<<Num(4), Num(2)>>)]),
   Obj([width |-> Num(4), height |-> Num(2)]),
   Obj([frame_width |-> Num(2), image_height |-> Num(4), width |-> Num(8)]),
   Obj([resolution |-> Arr(<<Num(4)>>), width |-> Num(0), height |-> Num(-2)]),
   Obj([resolution |-> Arr(<<Str("wide"), Rat(1, 2)>>)]),
   Obj([resolution |-> Arr(<<Infinity(1), Num(2)>>)]),
   Obj([resolution |-> Arr(<<Num(4), Num(2)>>), width |-> Num(8), frame_height |-> Num(8)])}

\* The object with the fields of a and of b (b wins).
Merge(a, b) ==
  Obj([k \in DOMAIN a.o \cup DOMAIN b.o |-> IF k \in DOMAIN b.o THEN b.o[k] ELSE a.o[k]])

\* A list of entries under each of the keys a list is looked for, with the
\* frame fields f.
MixedForms(f, l) ==
  {l,
   Merge(f, Obj([detections |-> l])),
   Merge(f, Obj([objects |-> l])),
   Merge(f, Obj([boxes |-> l])),
   Merge(f, Obj([boxes |-> l, labels |-> Arr(<<Str("person"), Str("")>>)])),
   Merge(f, Obj([boxes |-> l, detections |-> Arr(<<Quad(Num(0), Num(0), Num(1), Num(1))>>)]))}

\* Payloads that hold no list at all.
ScalarPayloads ==
  {Null, Undefined, NaN, Num(0), Num(5), Str(""), Str("junk"), Bool(TRUE), EmptyObject,
   Obj([boxes |-> Str("junk")]), Obj([detections |-> Null]), Obj([objects |-> Num(3)]),
   Obj([boxes |-> Null, labels |-> Null])}

\* One detection given by its two corners, in [0,1], no reference frame.
CornerForms(x1, y1, x2, y2) ==
  {Arr(<<Obj([x1 |-> x1, y1 |-> y1, x2 |-> x2, y2 |-> y2])>>),
   Obj([detections |-> Arr(<<Obj([left |-> x1, top |-> y1, right |-> x2, bottom |-> y2])>>)]),
   Obj([objects |-> Arr(<<Obj([bbox |-> Obj([x_min |-> x1, y_min |-> y1,
                                             x_max |-> x2, y_max |-> y2])])>>)]),
   Obj([boxes |-> Arr(<<Obj([x1 |-> x1, y1 |-> y1, x2 |-> x2, y2 |-> y2])>>)])}

\* One detection given by its centre and size, in [0,1], no reference frame.
CentreForms(cx, cy, w, h) ==
  {Arr(<<Obj([cx |-> cx, cy |-> cy, width |-> w, height |-> h])>>),
   Obj([detections |-> Arr(<<Obj([center_x |-> cx, center_y |-> cy, w |-> w, h |-> h])>>)]),
   Obj([objects |-> Arr(<<Obj([box |-> Obj([cx |-> cx, cy |-> cy,
                                            width |-> w, height |-> h])])>>)]),
   Obj([boxes |-> Arr(<<Obj([cx |-> cx, cy |-> cy, width |-> w, height |-> h])>>)])}

\* The payload is drawn from one of the families.
PayloadInput ==
  \/ \E x \in PixelCoords, y \in PixelCoords, w \in PixelCoords, h \in PixelCoords,
        W \in Dims, H \in Dims : payload \in ResolutionForms(Quad(x, y, w, h), W, H)
  \/ \E x \in UnitCoords, y \in UnitCoords, w \in UnitCoords, h \in UnitCoords :
        payload \in UnitForms(x, y, w, h)
  \/ \E f \in FrameFields, l \in SeqsUpTo(MixedEntries, MaxEntries) :
        payload \in MixedForms(f, Arr(l))
  \/ \E x1 \in UnitCoords, y1 \in UnitCoords, x2 \in UnitCoords, y2 \in UnitCoords :
        payload \in CornerForms(x1, y1, x2, y2)
  \/ \E cx \in UnitCoords, cy \in UnitCoords, w \in UnitCoords, h \in UnitCoords :
        payload \in CentreForms(cx, cy, w, h)
  \/ payload \in TuplePayloads \cup ScalarPayloads

\* const detections = parseDetections(inferenceSource)
Normalize ==
  /\ phase = "input"
  /\ result' = parseDetections(payload)
  /\ phase' = "done"
  /\ UNCHANGED <<payload, viewVars, gridVars, hubVars>>

NormInit ==
  /\ ViewInit("camera1")
  /\ PayloadInput
  /\ GridIdle /\ HubIdle
  /\ result = Arr(<<>>)
  /\ phase = "input"

NormNext == Normalize

SpecNorm == NormInit /\ [][NormNext]_vars

(***************************************************************************)
(* Properties of the normalizer, checked under SpecNorm.                   *)
(***************************************************************************)
Done == phase = "done"

IsObject(v) == v.t = "obj"
Has(v, k) == IsObject(v) /\ k \in DOMAIN v.o
ListKeys == {"boxes", "detections", "objects"}
FrameKeys == {"resolution", "frame_width", "image_width", "width",
              "frame_height", "image_height", "height"}

\* The one list of entries of a payload that has exactly one: the payload
\* itself, or the array under its only list key.
HasOneList(p) ==
  \/ IsArray(p)
  \/ /\ IsObject(p)
     /\ Cardinality(DOMAIN p.o \cap ListKeys) = 1
     /\ \A k \in DOMAIN p.o \cap ListKeys : IsArray(p.o[k])
OneList(p) == IF IsArray(p) THEN p.a
              ELSE (p.o[CHOOSE k \in DOMAIN p.o \cap ListKeys : TRUE]).a

\* r is v / D clamped to [0,1], for numbers v and D > 0, stated without
\* dividing.
IsClampedRatio(r, v, D) ==
  /\ r.t = "num"
  /\ IF v.n <= 0 THEN r = Num(0)
     ELSE IF LessEq(D, v) THEN r = Num(1)
     ELSE r.n * D.n * v.d = v.n * r.d * D.d

IsNumber(v) == v.t = "num"
IsQuad(e) == IsArray(e) /\ Len(e.a) >= 4 /\ \A i \in 1..4 : IsNumber(e.a[i])

\* The [x, y, w, h] array an entry is given as, Null if it is not.
QuadOf(e) ==
  IF IsQuad(e) THEN e
  ELSE IF IsObject(e) /\ DOMAIN e.o = {"bbox"} /\ IsQuad(e.o.bbox) THEN e.o.bbox
  ELSE Null

HasResolution(p) ==
  /\ Has(p, "resolution") /\ IsArray(p.o.resolution) /\ Len(p.o.resolution.a) = 2
  /\ \A i \in 1..2 : IsNumber(p.o.resolution.a[i]) /\ Less(Num(1), p.o.resolution.a[i])

BoxAt(i) == result.a[i].o.box.o

\* C4 -- a boxes+labels payload of tuples [x, y, w, h, class, confidence]
\* with a resolution gives, per tuple, the label at the same index, the
\* tuple's sixth element as confidence and x, y, w, h over the resolution;
\* the documented Hailo payload gives one detection, "person", 0.91,
\* box (0.078, 0.069, 0.031, 0.056) to three decimals.
IsTuplePayload(p) ==
  /\ HasResolution(p) /\ Has(p, "boxes") /\ Has(p, "labels")
  /\ IsArray(p.o.boxes) /\ IsArray(p.o.labels)
  /\ Len(p.o.boxes.a) = Len(p.o.labels.a)
  /\ \A i \in 1..Len(p.o.boxes.a) :
       LET b == p.o.boxes.a[i] IN
       IsArray(b) /\ Len(b.a) = 6 /\ \A j \in 1..6 : IsNumber(b.a[j])
Thousandths(r) == (2000 * r.n + r.d) \div (2 * r.d)
C4_TupleConfidenceIsSixth ==
  (Done /\ IsTuplePayload(payload)) =>
    /\ IsArray(result) /\ Len(result.a) = Len(payload.o.boxes.a)
    /\ \A i \in 1..Len(payload.o.boxes.a) :
         LET b == payload.o.boxes.a[i].a
             W == payload.o.resolution.a[1]
             H == payload.o.resolution.a[2]
         IN /\ result.a[i].o.label = payload.o.labels.a[i]
            /\ result.a[i].o.confidence = b[6]
            /\ IsClampedRatio(BoxAt(i).x, b[1], W)
            /\ IsClampedRatio(BoxAt(i).y, b[2], H)
            /\ IsClampedRatio(BoxAt(i).width, b[3], W)
            /\ IsClampedRatio(BoxAt(i).height, b[4], H)
    /\ payload = HailoPayload =>
         /\ result.a[1].o.label = Str("person")
         /\ result.a[1].o.confidence = Rat(91, 100)
         /\ <<Thousandths(BoxAt(1).x), Thousandths(BoxAt(1).y),
              Thousandths(BoxAt(1).width), Thousandths(BoxAt(1).height)>> = <<78, 69, 31, 56>>

\* C8 -- every detection given as an [x, y, w, h] number array, with a
\* resolution [W, H], W > 1 and H > 1, is normalized to
\* (x/W, y/H, w/W, h/H) with each component clamped to [0,1].
C8_Applies ==
  /\ HasResolution(payload) /\ HasOneList(payload)
  /\ OneList(payload) # <<>>
  /\ \A i \in 1..Len(OneList(payload)) : QuadOf(OneList(payload)[i]) # Null
C8_ArrayOverResolution ==
  (Done /\ C8_Applies) =>
    /\ IsArray(result) /\ Len(result.a) = Len(OneList(payload))
    /\ \A i \in 1..Len(OneList(payload)) :
         LET q == QuadOf(OneList(payload)[i]).a
             W == payload.o.resolution.a[1]
             H == payload.o.resolution.a[2]
         IN /\ IsClampedRatio(BoxAt(i).x, q[1], W)
            /\ IsClampedRatio(BoxAt(i).y, q[2], H)
            /\ IsClampedRatio(BoxAt(i).width, q[3], W)
            /\ IsClampedRatio(BoxAt(i).height, q[4], H)
\* A box inside the frame along x, clamped along y and in its width.
C8_Witness ==
  /\ Done /\ C8_Applies
  /\ payload.o.resolution.a[1] # payload.o.resolution.a[2]
  /\ BoxAt(1).x = Rat(2, 3) /\ BoxAt(1).y = Num(0)
  /\ BoxAt(1).width = Num(1) /\ BoxAt(1).height = Rat(1, 2)

\* C9 -- a detection whose x, y, width, height already lie in [0,1], in a
\* payload with no resolution and no width/height field, keeps its box
\* unchanged; normalizing the output again changes nothing.
\* The box an entry states directly, as <<x, y, width, height>>; <<>> if none.
StatedBox(e) ==
  IF IsQuad(e) THEN SubSeq(e.a, 1, 4)
  ELSE IF IsObject(e) /\ {"x", "y", "width", "height"} \subseteq DOMAIN e.o
       THEN <<e.o.x, e.o.y, e.o.width, e.o.height>>
  ELSE IF IsObject(e) /\ Has(e, "box") /\ IsObject(e.o.box)
          /\ DOMAIN e.o.box.o = {"left", "top", "w", "h"}
       THEN <<e.o.box.o.left, e.o.box.o.top, e.o.box.o.w, e.o.box.o.h>>
  ELSE <<>>
InUnit(v) == IsNumber(v) /\ LessEq(Num(0), v) /\ LessEq(v, Num(1))
C9_Applies ==
  /\ HasOneList(payload)
  /\ IsObject(payload) => DOMAIN payload.o \cap FrameKeys = {}
  /\ OneList(payload) # <<>>
  /\ \A i \in 1..Len(OneList(payload)) :
       LET b == StatedBox(OneList(payload)[i]) IN
       Len(b) = 4 /\ \A j \in 1..4 : InUnit(b[j])
C9_UnitBoxUnchanged ==
  (Done /\ C9_Applies) =>
    /\ IsArray(result) /\ Len(result.a) = Len(OneList(payload))
    /\ \A i \in 1..Len(OneList(payload)) :
         <<BoxAt(i).x, BoxAt(i).y, BoxAt(i).width, BoxAt(i).height>>
           = StatedBox(OneList(payload)[i])
    /\ parseDetections(result) = result
C9_Witness ==
  /\ Done /\ C9_Applies /\ IsObject(payload)
  /\ BoxAt(1).x = Rat(1, 4) /\ BoxAt(1).y = Rat(3, 4)
  /\ BoxAt(1).width = Rat(1, 2) /\ BoxAt(1).height = Num(1)

\* C10 -- for every payload, malformed ones included, parseDetections
\* returns a list and does not throw, and the list is no longer than the
\* lists of entries in the input.
ListLength(v) == IF IsArray(v) THEN Len(v.a) ELSE 0
Largest(S) == CHOOSE n \in S : \A m \in S : m <= n
EntryCount(p) ==
  IF IsArray(p) THEN Len(p.a)
  ELSE IF IsObject(p)
       THEN Largest({0} \cup {ListLength(p.o[k]) : k \in DOMAIN p.o \cap ListKeys})
  ELSE 0
C10_NeverThrowsNeverLonger ==
  Done => /\ result # Throw
          /\ IsArray(result)
          /\ Len(result.a) <= EntryCount(payload)
\* A list with a null entry and a well-formed one: one detection comes out.
C10_Witness ==
  /\ Done /\ HasOneList(payload) /\ Len(OneList(payload)) = 2
  /\ OneList(payload)[1] = Null
  /\ IsArray(result) /\ Len(result.a) = 1

NoFrameFields(p) == ~\E k \in FrameKeys : Has(p, k)

\* r is n/d (d > 0) clamped to [0,1], stated without dividing.
IsClamped(r, n, d) ==
  /\ r.t = "num"
  /\ IF n <= 0 THEN r = Num(0)
     ELSE IF n >= d THEN r = Num(1)
     ELSE r.n * d = n * r.d

\* The corners <<x1, y1, x2, y2>> of an entry that gives exactly its two
\* corners as numbers, <<>> for any other entry.
CornerKeys == {<<"x1", "y1", "x2", "y2">>, <<"left", "top", "right", "bottom">>,
               <<"x_min", "y_min", "x_max", "y_max">>}
CornersOfObject(e) ==
  IF IsObject(e) /\ \E ks \in CornerKeys : DOMAIN e.o = {ks[i] : i \in 1..4}
  THEN LET ks == CHOOSE ks \in CornerKeys : DOMAIN e.o = {ks[i] : i \in 1..4}
       IN IF \A i \in 1..4 : IsNumber(e.o[ks[i]])
          THEN <<e.o[ks[1]], e.o[ks[2]], e.o[ks[3]], e.o[ks[4]]>> ELSE <<>>
  ELSE <<>>
CornersOf(e) ==
  IF IsObject(e) /\ DOMAIN e.o = {"bbox"} THEN CornersOfObject(e.o.bbox)
  ELSE CornersOfObject(e)

\* C11 -- an entry given by its two corners and no size, with no reference
\* frame in the payload, is not rejected: its width and height are x2 - x1
\* and y2 - y1 and each of x, y, width, height is clamped to [0,1]; the
\* entry {x1: 10, y1: 10, x2: 110, y2: 60} gives the box (1, 1, 1, 1).
C11_Applies ==
  /\ Done /\ HasOneList(payload) /\ NoFrameFields(payload)
  /\ Len(OneList(payload)) >= 1
  /\ \A i \in 1..Len(OneList(payload)) : CornersOf(OneList(payload)[i]) # <<>>
CornerExample == Obj([x1 |-> Num(10), y1 |-> Num(10), x2 |-> Num(110), y2 |-> Num(60)])
C11_CornerFormDerivesSize ==
  C11_Applies =>
    /\ IsArray(result) /\ Len(result.a) = Len(OneList(payload))
    /\ \A i \in 1..Len(OneList(payload)) :
         LET c == CornersOf(OneList(payload)[i]) IN
         /\ IsClamped(BoxAt(i).x, c[1].n, c[1].d)
         /\ IsClamped(BoxAt(i).y, c[2].n, c[2].d)
         /\ IsClamped(BoxAt(i).width, c[3].n * c[1].d - c[1].n * c[3].d, c[3].d * c[1].d)
         /\ IsClamped(BoxAt(i).height, c[4].n * c[2].d - c[2].n * c[4].d, c[4].d * c[2].d)
         /\ (OneList(payload)[i] = CornerExample =>
               BoxAt(i) = [x |-> Num(1), y |-> Num(1), width |-> Num(1), height |-> Num(1)])
C11_Witness ==
  /\ C11_Applies
  /\ OneList(payload)[1] = CornerExample
  /\ BoxAt(1) = [x |-> Num(1), y |-> Num(1), width |-> Num(1), height |-> Num(1)]

\* C12 -- for every payload and every reference frame size (zero, negative,
\* fractional, infinite or non-numeric dimensions included), x, y, width and
\* height of every detection returned are numbers within [0,1].
C12_BoxWithinUnit ==
  (Done /\ IsArray(result)) =>
    \A i \in 1..Len(result.a) :
      InUnit(BoxAt(i).x) /\ InUnit(BoxAt(i).y) /\ InUnit(BoxAt(i).width) /\ InUnit(BoxAt(i).height)

\* The payload with its one list replaced by the single entry e, and the
\* boxes the entries of the payload's list give one by one.
ListKey(p) == CHOOSE k \in DOMAIN p.o \cap ListKeys : TRUE
SingleList(p, e) ==
  IF IsArray(p) THEN Arr(<<e>>) ELSE Obj([p.o EXCEPT ![ListKey(p)] = Arr(<<e>>)])
BoxesOf(r) == [i \in 1..Len(r.a) |-> r.a[i].o.box]
RECURSIVE EntryBoxes(_, _)
EntryBoxes(p, n) ==
  IF n = 0 THEN <<>>
  ELSE EntryBoxes(p, n - 1) \o BoxesOf(parseDetections(SingleList(p, OneList(p)[n])))
FourNumbers(e) ==
  IsArray(e) /\ Len(e.a) >= 4 /\ \A i \in 1..4 : TypeofNumber(e.a[i]) /\ e.a[i].t # "nan"

\* C18 -- the output is the source list in source order, each valid entry
\* replaced by its normalized detection and each entry that cannot yield four
\* numeric non-NaN values removed: the boxes of the output are those the
\* entries give one by one, in order (no entry aborts or suppresses another),
\* and an entry that is neither an object nor an array of four numbers gives
\* none.
C18_SourceOrderInvalidRemoved ==
  (Done /\ HasOneList(payload)) =>
    /\ IsArray(result)
    /\ BoxesOf(result) = EntryBoxes(payload, Len(OneList(payload)))
    /\ \A i \in 1..Len(OneList(payload)) :
         (~IsObject(OneList(payload)[i]) /\ ~FourNumbers(OneList(payload)[i]))
           => parseDetections(SingleList(payload, OneList(payload)[i])) = Arr(<<>>)

\* The centre and size <<cx, cy, width, height>> of an entry that gives
\* exactly those as numbers, <<>> for any other entry.
CentreKeys == {<<"cx", "cy", "width", "height">>, <<"center_x", "center_y", "w", "h">>}
CentreOfObject(e) ==
  IF IsObject(e) /\ \E ks \in CentreKeys : DOMAIN e.o = {ks[i] : i \in 1..4}
  THEN LET ks == CHOOSE ks \in CentreKeys : DOMAIN e.o = {ks[i] : i \in 1..4}
       IN IF \A i \in 1..4 : IsNumber(e.o[ks[i]])
          THEN <<e.o[ks[1]], e.o[ks[2]], e.o[ks[3]], e.o[ks[4]]>> ELSE <<>>
  ELSE <<>>
CentreOf(e) ==
  IF IsObject(e) /\ DOMAIN e.o = {"box"} THEN CentreOfObject(e.o.box)
  ELSE CentreOfObject(e)

\* C19 -- an entry in centre form (cx, cy, width, height), with no reference
\* frame in the payload, gives the box centred on (cx, cy): x is
\* cx - width/2 and y is cy - height/2, then clamped to [0,1].
C19_Applies ==
  /\ Done /\ HasOneList(payload) /\ NoFrameFields(payload)
  /\ Len(OneList(payload)) = 1
  /\ CentreOf(OneList(payload)[1]) # <<>>
C19_CentreFormIsCentred ==
  C19_Applies =>
    LET c == CentreOf(OneList(payload)[1]) IN
    /\ IsArray(result) /\ Len(result.a) = 1
    /\ IsClamped(BoxAt(1).x, 2 * c[1].n * c[3].d - c[3].n * c[1].d, 2 * c[1].d * c[3].d)
    /\ IsClamped(BoxAt(1).y, 2 * c[2].n * c[4].d - c[4].n * c[2].d, 2 * c[2].d * c[4].d)
    /\ IsClamped(BoxAt(1).width, c[3].n, c[3].d)
    /\ IsClamped(BoxAt(1).height, c[4].n, c[4].d)

\* The payload without its lists of per-detection objects.
BoxesOnly(p) == Obj([k \in DOMAIN p.o \ {"detections", "objects"} |-> p.o[k]])
HasBoxes(p) == Has(p, "boxes") /\ IsArray(p.o.boxes) /\ Len(p.o.boxes.a) > 0

\* C20 -- the boxes+labels form is tried first and the per-detection lists
\* (detections, objects) are used only if it is absent: when the payload has
\* a non-empty boxes array the result is built from it alone, as if the
\* payload had no per-detection list, also when no entry of boxes is valid.
C20_BoxesAloneWhenPresent ==
  (Done /\ HasBoxes(payload)) => result = parseDetections(BoxesOnly(payload))

\* The sum of two numbers is at most 1, stated without dividing.
SumWithinOne(a, b) ==
  IsNumber(a) /\ IsNumber(b) /\ a.n * b.d + b.n * a.d <= a.d * b.d

\* C21 -- every normalized box lies inside the frame: for every input each
\* of x, y, width, height is in [0,1] and, in addition, x + width <= 1 and
\* y + height <= 1 (a box reaching past the right or bottom edge is clipped).
C21_BoxInsideFrame ==
  (Done /\ IsArray(result)) =>
    \A i \in 1..Len(result.a) :
      /\ InUnit(BoxAt(i).x) /\ InUnit(BoxAt(i).y)
      /\ InUnit(BoxAt(i).width) /\ InUnit(BoxAt(i).height)
      /\ SumWithinOne(BoxAt(i).x, BoxAt(i).width)
      /\ SumWithinOne(BoxAt(i).y, BoxAt(i).height)

\* The reference dimensions a payload offers along an axis (1 = width,
\* 2 = height), in priority order: the resolution array, else the discrete
\* fields of that axis, else the unit frame.
AxisFields(axis) ==
  IF axis = 1 THEN {"frame_width", "image_width", "width"}
  ELSE {"frame_height", "image_height", "height"}
DiscreteDims(p, axis) ==
  IF IsObject(p) THEN {p.o[k] : k \in {f \in AxisFields(axis) \cap DOMAIN p.o : ~IsNullish(p.o[f])}}
  ELSE {}
ReferenceDims(p, axis) ==
  IF Has(p, "resolution") /\ IsArray(p.o.resolution) /\ Len(p.o.resolution.a) >= 2
  THEN {p.o.resolution.a[axis]}
  ELSE IF DiscreteDims(p, axis) # {} THEN DiscreteDims(p, axis)
  ELSE {Num(1)}
\* r is the number v over D clamped to [0,1] when D is a number > 1, and v
\* clamped to [0,1] otherwise.
IsNormalized(r, v, D) ==
  IF D = Infinity(1) THEN r = Num(0)
  ELSE IF IsNumber(D) /\ Less(Num(1), D) THEN IsClampedRatio(r, v, D)
  ELSE IsClamped(r, v.n, v.d)
AllQuads(p) ==
  /\ HasOneList(p) /\ OneList(p) # <<>>
  /\ \A i \in 1..Len(OneList(p)) : QuadOf(OneList(p)[i]) # Null

\* C22 -- the reference frame is the resolution array [width, height] if
\* present, otherwise the discrete width/height fields, otherwise 1x1; along
\* each axis a raw coordinate is divided by the reference dimension only if
\* that dimension is > 1 and is otherwise taken as already normalized, then
\* clamped to [0,1].
C22_FrameSizePriority ==
  (Done /\ AllQuads(payload)) =>
    /\ IsArray(result) /\ Len(result.a) = Len(OneList(payload))
    /\ \A i \in 1..Len(OneList(payload)) :
         LET q == QuadOf(OneList(payload)[i]).a IN
         /\ \E W \in ReferenceDims(payload, 1) :
              IsNormalized(BoxAt(i).x, q[1], W) /\ IsNormalized(BoxAt(i).width, q[3], W)
         /\ \E H \in ReferenceDims(payload, 2) :
              IsNormalized(BoxAt(i).y, q[2], H) /\ IsNormalized(BoxAt(i).height, q[4], H)
\* A resolution [4, 2] next to width 8 and frame_height 8: the resolution is
\* the one divided by.
C22_Witness ==
  /\ Done /\ AllQuads(payload)
  /\ Has(payload, "resolution") /\ Has(payload, "width") /\ Has(payload, "frame_height")
  /\ OneList(payload)[1] = Quad(Rat(1, 4), Rat(1, 4), Rat(1, 2), Rat(1, 2))
  /\ BoxAt(1) = [x |-> Rat(1, 16), y |-> Rat(1, 8), width |-> Rat(1, 8), height |-> Rat(1, 4)]

\* The entries of the payload's list that give a detection, by position, and
\* what the payload states about the label and confidence of an entry.
GivesBox(p, e) == parseDetections(SingleList(p, e)) # Arr(<<>>)
RECURSIVE KeptIndices(_, _)
KeptIndices(p, n) ==
  IF n = 0 THEN <<>>
  ELSE KeptIndices(p, n - 1) \o (IF GivesBox(p, OneList(p)[n]) THEN <<n>> ELSE <<>>)
IsLabel(v) == v.t = "str" /\ v.s # ""
FieldValues(e, keys) ==
  IF IsObject(e) THEN {e.o[k] : k \in {f \in keys \cap DOMAIN e.o : ~IsNullish(e.o[f])}}
  ELSE {}
ExplicitLabels(p, e, n) ==
  FieldValues(e, {"label", "name", "class", "category"})
    \cup (IF Has(p, "labels") /\ IsArray(p.o.labels) /\ n <= Len(p.o.labels.a)
             /\ IsLabel(p.o.labels.a[n])
          THEN {p.o.labels.a[n]} ELSE {})
\* (an array states a confidence only as a tuple of the boxes form)
ExplicitConfidences(p, e) ==
  FieldValues(e, {"confidence", "score"})
    \cup (IF Has(p, "boxes") /\ IsArray(e) /\ Len(e.a) >= 6 THEN {e.a[6]} ELSE {})
LabelAsStated(d, p, e, n) ==
  IF ExplicitLabels(p, e, n) = {} THEN d.o.label = Str("object-" \o ToString(n))
  ELSE d.o.label \in ExplicitLabels(p, e, n)
ConfidenceAsStated(d, p, e) ==
  IF ExplicitConfidences(p, e) = {} THEN d.o.confidence = Null
  ELSE d.o.confidence \in ExplicitConfidences(p, e)

\* C23 -- each output detection's label is the entry's explicit label when
\* present and otherwise "object-N", N the entry's 1-based position in the
\* source list (not in the filtered output); its confidence is the entry's
\* explicit confidence/score when present and otherwise null.
C23_LabelAndConfidenceFallback ==
  (Done /\ HasOneList(payload) /\ IsArray(result)) =>
    LET kept == KeptIndices(payload, Len(OneList(payload))) IN
    /\ Len(result.a) = Len(kept)
    /\ \A k \in 1..Len(kept) :
         /\ LabelAsStated(result.a[k], payload, OneList(payload)[kept[k]], kept[k])
         /\ ConfidenceAsStated(result.a[k], payload, OneList(payload)[kept[k]])

\* The width and height an entry states, directly or by its corners (then a
\* number with the sign of x2 - x1 and of y2 - y1); <<>> for an entry that
\* states no size in numbers.
SizeOf(e) ==
  IF QuadOf(e) # Null
  THEN <<QuadOf(e).a[3], QuadOf(e).a[4]>>
  ELSE IF Len(StatedBox(e)) = 4 /\ \A j \in 1..4 : IsNumber(StatedBox(e)[j])
  THEN <<StatedBox(e)[3], StatedBox(e)[4]>>
  ELSE IF CornersOf(e) # <<>>
  THEN <<[t |-> "num", n |-> CornersOf(e)[3].n * CornersOf(e)[1].d
                              - CornersOf(e)[1].n * CornersOf(e)[3].d, d |-> 1],
         [t |-> "num", n |-> CornersOf(e)[4].n * CornersOf(e)[2].d
                              - CornersOf(e)[2].n * CornersOf(e)[4].d, d |-> 1]>>
  ELSE <<>>
AllSized(p) ==
  /\ HasOneList(p) /\ OneList(p) # <<>>
  /\ \A i \in 1..Len(OneList(p)) : SizeOf(OneList(p)[i]) # <<>>

\* C30 -- an entry whose width or height is negative, given directly or
\* derived from a corner pair with x2 < x1 or y2 < y1, is kept and not
\* dropped: the detection is emitted with that side of size 0.
C30_NegativeSizeKeptAsZero ==
  (Done /\ AllSized(payload)) =>
    /\ IsArray(result) /\ Len(result.a) = Len(OneList(payload))
    /\ \A i \in 1..Len(OneList(payload)) :
         /\ SizeOf(OneList(payload)[i])[1].n < 0 => BoxAt(i).width = Num(0)
         /\ SizeOf(OneList(payload)[i])[2].n < 0 => BoxAt(i).height = Num(0)
\* A width of -1 given directly and one derived from right 1 < left 3: both
\* entries come out, each with width 0.
C30_Witness ==
  /\ Done /\ AllSized(payload) /\ Len(OneList(payload)) = 2
  /\ OneList(payload)[1] = Obj([x |-> Num(1), y |-> Num(0), width |-> Num(-1), height |-> Num(1)])
  /\ OneList(payload)[2] = Obj([left |-> Num(3), top |-> Num(1), right |-> Num(1), bottom |-> Num(2)])
  /\ IsArray(result) /\ Len(result.a) = 2
  /\ BoxAt(1).width = Num(0) /\ BoxAt(2).width = Num(0)

(***************************************************************************)
(* Properties of the session, checked under Spec and SpecStream.           *)
(***************************************************************************)
Sessions == 1..Len(sessions)
Created == Len(sockets') > Len(sockets)
Newest == sockets'[Len(sockets')]

\* C1 -- a session torn down while a reconnect timer was pending gets no
\* WebSocket afterwards.
C1_TeardownCancelsReconnect ==
  [][Created =>
       ~(sessions'[Newest.session].torn
         /\ sessions'[Newest.session].tornIn = "Reconnecting")]_vars

\* C2 -- the close of an open socket of a running session leaves the session
\* Reconnecting with exactly one reconnect scheduled, due 3 seconds later,
\* and creates no socket; a socket is created only by a run of the effect
\* or by a timer that is due, one socket per timer, and a timer goes away
\* only by firing.
ClosedWhileOpen(i) ==
  /\ sockets[i].readyState = "OPEN" /\ sockets'[i].readyState = "CLOSED"
  /\ ~sessions[sockets[i].session].torn
CloseSchedules ==
  \A i \in 1..Len(sockets) :
    ClosedWhileOpen(i) =>
      /\ timers' = Append(timers, [by |-> i, session |-> sockets[i].session,
                                   due |-> now + RECONNECT_DELAY_MS])
      /\ Cardinality(PendingTimers(sockets[i].session)') = 1
      /\ Activity(sockets[i].session)' = "Reconnecting"
      /\ ~Created
CreatedByEffectOrDueTimer ==
  Created =>
    /\ Len(sockets') = Len(sockets) + 1
    /\ Newest.readyState = "CONNECTING"
    /\ \/ Newest.cause = "effect" /\ Len(sessions') = Len(sessions) + 1
       \/ /\ Newest.cause = "timer"
          /\ Len(timers') = Len(timers) - 1
          /\ \E j \in 1..Len(timers) :
               /\ timers[j].session = Newest.session
               /\ timers[j].due <= now
               /\ \A k \in 1..Len(timers') :
                    timers'[k] = IF k < j THEN timers[k] ELSE timers[k + 1]
TimerGoesByFiring ==
  Len(timers') < Len(timers) =>
    /\ Len(timers') = Len(timers) - 1
    /\ Created /\ Newest.cause = "timer"
C2_CloseSchedulesOneReconnect ==
  [][CloseSchedules /\ CreatedByEffectOrDueTimer /\ TimerGoesByFiring]_vars
\* The reconnect of a session that was open and closed without an error: its
\* new socket is in its handshake, 3 seconds or more after mount.
C2_Witness ==
  \E i \in 1..Len(sockets) :
    /\ sockets[i].cause = "timer" /\ sockets[i].readyState = "CONNECTING"
    /\ sockets[i].session = current /\ mounted
    /\ error = Null /\ ~connected
    /\ now >= RECONNECT_DELAY_MS

\* C3 -- once a session is torn down, no reconnect timer is scheduled for
\* it, no socket is created for it, and no handler of its sockets updates
\* the view's state.
C3_ClosingIsTerminal ==
  [][\A g \in Sessions :
       sessions[g].torn =>
         /\ Cardinality(PendingTimers(g)') <= Cardinality(PendingTimers(g))
         /\ (Created => Newest.session # g)
         /\ ((\E i \in 1..Len(sockets) : sockets[i].session = g /\ sockets'[i] # sockets[i])
              => <<connected, error, frameCount, fps, aiData>>'
                   = <<connected, error, frameCount, fps, aiData>>)]_vars

\* C5 -- after every message the overlays are the normalizer's output for
\* the latest detection data received: a message with detection data (a
\* frame with ai_data, or a message of type "ai") replaces them, any other
\* message leaves them as they are.
C5_OverlaysFollowLatestDetection ==
  [][\A i \in 1..Len(sockets) : \A text \in Messages(sockets[i].url) :
       (mounted /\ WsMessage(i, text)) =>
         parseDetections(inferenceSource(aiData')) = IF DetectionOf(JSONparse(text)) # Null
                       THEN parseDetections(inferenceSource(DetectionOf(JSONparse(text))))
                       ELSE detections]_vars

\* C6 -- a session that is not torn down is connecting, open, or waiting for
\* its reconnect timer: every failed attempt, a throwing constructor
\* included, leaves a reconnect pending.
C6_FailureLeadsToReconnecting ==
  \A g \in Sessions :
    ~sessions[g].torn => Activity(g) \in {"Connecting", "Open", "Reconnecting"}

\* C7 -- a session never owns more than one of: a socket in its handshake,
\* an open socket, a pending reconnect timer.
C7_OneOwnedResource ==
  \A g \in Sessions :
    Cardinality(LiveSockets(g)) + Cardinality(PendingTimers(g)) <= 1
\* The session went through all three: it is on its second socket, open,
\* created by its reconnect timer.
C7_Witness ==
  \E i \in 1..Len(sockets) :
    /\ sockets[i].cause = "timer" /\ sockets[i].readyState = "OPEN"
    /\ ~sessions[sockets[i].session].torn
    /\ PendingTimers(sockets[i].session) = {}
    /\ connected

\* C13 -- a transport error is not a permanent state of the tile: the error
\* message set by onerror is cleared when a later connection opens, so the
\* message is never set while the mounted view's session is Open.
C13_NoErrorWhileOpen ==
  (mounted /\ SessionState(current) = "Open") => error = Null

(***************************************************************************)
(* Properties of the dashboard, checked under SpecGrid.                    *)
(***************************************************************************)
\* The transport of camera c's tile had an event: a socket opened, failed or
\* closed, a reconnect was scheduled or a reconnect timer ran.
TransportEvent(c) ==
  tiles'[c].sockets # tiles[c].sockets \/ tiles'[c].timers # tiles[c].timers

\* C14 -- failure is scoped to one tile: a step in which one camera's
\* transport errs, closes or reconnects leaves the state of every other
\* camera's tile (connected, frame counter, FPS, detections, error,
\* transport) as it was, in every interleaving of the three cameras.
C14_FailureScopedToTile ==
  [][\A c \in Cameras :
       TransportEvent(c) => \A d \in Cameras \ {c} : tiles'[d] = tiles[d]]_vars
C14_Witness ==
  /\ tiles # <<>>
  /\ tiles["camera1"].error = Str("Connection error")
  /\ Len(tiles["camera1"].sockets) = 2 /\ ~tiles["camera1"].connected
  /\ tiles["camera2"].connected /\ tiles["camera2"].frameCount = Num(1)
  /\ tiles["camera2"].error = Null
  /\ tiles["camera3"].connected /\ tiles["camera3"].aiData # Null

(***************************************************************************)
(* Properties of the hub, checked under SpecHub.                           *)
(***************************************************************************)
IsFrameEvent(e) == e.kind = "frame"
IsDetectionEvent(e) == e.kind = "detection"
FramesOf(q) == SelectSeq(q, IsFrameEvent)
DetectionsOf(q) == SelectSeq(q, IsDetectionEvent)
Subscription(s) == hub.subs[s]
IsSubscribed(s) == hub # <<>> /\ Subscription(s).status = "subscribed"
FramePublished == hub'.seq = hub.seq + 1
DetectionPublished == hub'.det = hub.det + 1

WithNew(q, e, isKind) == IF isKind THEN Append(q, e) ELSE q
PublishKeepsContract(q, qAfter, e) ==
  /\ qAfter[Len(qAfter)] = e
  /\ DetectionsOf(qAfter) = WithNew(DetectionsOf(q), e, IsDetectionEvent(e))
  /\ IF Full(q) /\ FramesOf(q) # <<>>
     THEN /\ FramesOf(qAfter) = WithNew(Tail(FramesOf(q)), e, IsFrameEvent(e))
          /\ Len(qAfter) = Len(q)
     ELSE qAfter = Append(q, e)
BoundedButForDetections(q) ==
  \/ Len(q) <= QueueCapacity
  \/ Len(q) <= Len(DetectionsOf(q)) + 1
SeqNumbers(q) == [i \in 1..Len(FramesOf(q)) |-> FramesOf(q)[i].seq]
FramesFor(s) == Subscription(s).log \o SeqNumbers(Subscription(s).queue)
Unsaturated(s) == IsSubscribed(s) /\ Subscription(s).missed = 0
Published(from, to) == [i \in 1..(to - from) |-> from + i]

\* C16 -- one camera, subscribers A and B: a subscriber whose queue never
\* overflowed has been sent, or has waiting, every Frame published since it
\* subscribed, in order, whatever the other subscriber's queue did; two such
\* subscribers that joined at the same point have the identical Frames.
C16_NoCrossSubscriberInterference ==
  /\ \A s \in Subscribers :
       Unsaturated(s) => FramesFor(s) = Published(Subscription(s).joined, hub.seq)
  /\ (Unsaturated("A") /\ Unsaturated("B")
       /\ Subscription("A").joined = Subscription("B").joined)
        => FramesFor("A") = FramesFor("B")
C16_Witness ==
  /\ Unsaturated("A") /\ IsSubscribed("B")
  /\ Subscription("A").joined = 0 /\ Subscription("B").joined = 0
  /\ Subscription("B").missed >= 1
  /\ hub.seq >= 3 /\ Subscription("A").log = Published(0, hub.seq)

\* C17 -- within one camera the Frame sequence numbers a subscriber is sent,
\* which are the frame counts its viewer shows, are strictly increasing
\* (gaps, no repeat, no reordering), and a viewer that subscribed after
\* Frame k was published is sent Frames from k + 1 on only (no backfill).
StrictlyIncreasing(l) == \A i \in 1..Len(l) : \A j \in 1..Len(l) : i < j => l[i] < l[j]
LastShown(l) == IF l = <<>> THEN Num(0) ELSE Num(l[Len(l)])
C17_SequenceIncreasesNoBackfill ==
  \A s \in Subscribers :
    (hub # <<>> /\ Subscription(s).status # "none") =>
      /\ StrictlyIncreasing(Subscription(s).log)
      /\ \A i \in 1..Len(Subscription(s).log) :
           Subscription(s).log[i] > Subscription(s).joined
      /\ Subscription(s).view.frameCount = LastShown(Subscription(s).log)
C17_Witness ==
  \E s \in Subscribers :
    /\ IsSubscribed(s) /\ Subscription(s).joined = 3 /\ hub.seq = 5
    /\ Subscription(s).log = <<4, 5>>
    /\ Subscription(s).view.frameCount = Num(5)

\* A Frame was received in this step: the only steps that touch the window.
FrameCounted == fpsCounterRef' # fpsCounterRef
\* r is count frames over elapsedMs milliseconds in frames per second, rounded
\* to the nearest integer (halves up).
IsRoundedRate(r, count, elapsedMs) ==
  /\ 2 * r * elapsedMs <= 2 * count * 1000 + elapsedMs
  /\ 2 * count * 1000 + elapsedMs < 2 * (r + 1) * elapsedMs

\* C24 -- FPS is computed over a rolling 1-second window: a Frame that
\* arrives at least 1 second after the window start sets the displayed FPS
\* from the Frames counted since the window start, itself included (their
\* number per second elapsed, rounded), resets the count to 0 and the window
\* start to now; a Frame that arrives earlier adds one to the count and
\* leaves the displayed FPS and the window start unchanged.
C24_RollingWindow ==
  [][(mounted /\ FrameCounted) =>
       IF now - fpsCounterRef.lastTime >= 1000
       THEN /\ IsRoundedRate(fps', fpsCounterRef.count + 1, now - fpsCounterRef.lastTime)
            /\ fpsCounterRef' = [count |-> 0, lastTime |-> now]
       ELSE /\ fpsCounterRef' = [count |-> fpsCounterRef.count + 1,
                                 lastTime |-> fpsCounterRef.lastTime]
            /\ fps' = fps]_vars
\* Three Frames in a window of 1.5 s were shown as 2 fps, and one Frame of the
\* next window is counted.
C24_Witness ==
  /\ mounted /\ fps = 2 /\ fpsCounterRef = [count |-> 1, lastTime |-> 1500]


\* The most recently created transport is open.
CurrentTransportOpen == sockets # <<>> /\ sockets[Len(sockets)].readyState = "OPEN"
\* A transport other than the most recently created one closes in this step.
SupersededCloses ==
  \E i \in 1..(Len(sockets) - 1) :
    /\ Len(sockets') = Len(sockets)
    /\ sockets[i].readyState # "CLOSED" /\ sockets'[i].readyState = "CLOSED"

\* C25 -- in every reachable state of a mounted view the connected flag is
\* true exactly when the current transport (the most recently created
\* WebSocket) is open; the close event of an older, superseded transport never
\* sets connected to false while the current transport is open.
C25_ConnectedIffCurrentOpen ==
  [][/\ (mounted' => (connected' <=> CurrentTransportOpen'))
     /\ ((mounted /\ SupersededCloses /\ CurrentTransportOpen /\ connected) => connected')]_vars


\* C26 -- after the cameraId of a view changed from A to B, every transport
\* the view creates is addressed to /ws/B and no frame or detection of camera
\* A updates its image, frame counter, FPS or overlays, whatever the order of
\* the old transport's close event, its 3-second timer and the new
\* transport's events: a transport is always created for the cameraId of the
\* moment, and a Frame that is taken comes from that camera.
C26_NoCrossCameraAfterChange ==
  [][/\ (Created => Newest.url = cameraId')
     /\ ((mounted /\ FrameCounted) => imgSrc' = cameraId)]_vars


\* The message handled in this step, when it differs from the one before, and
\* the messages that are no Frame: no JSON, no object of type "frame", or a
\* "frame" with empty data.
MessageHandled == lastMessage' # lastMessage
NoFrameMessage(text) ==
  \/ text = InvalidText
  \/ ~IsObject(text)
  \/ ~Has(text, "type") \/ text.o.type # Str("frame")
  \/ ~Has(text, "data") \/ text.o.data = Str("")

\* C27 -- a received message that is not valid JSON, or whose type is not
\* "frame" ("connected", "error"), or that is a "frame" with empty data,
\* leaves the frame counter, the FPS window, the FPS, the overlays and the
\* connected flag unchanged, does not close the transport and schedules no
\* reconnect.
C27_NonFrameMessageIgnored ==
  [][(MessageHandled /\ NoFrameMessage(lastMessage')) =>
       /\ frameCount' = frameCount /\ fpsCounterRef' = fpsCounterRef /\ fps' = fps
       /\ aiData' = aiData /\ connected' = connected
       /\ sockets' = sockets /\ timers' = timers /\ wsRef' = wsRef]_vars
\* A live view that shows frame 2 with detections at 1 fps has just been sent
\* an error message.
C27_Witness ==
  /\ mounted /\ connected /\ frameCount = Num(2) /\ fps = 1 /\ aiData # Null
  /\ lastMessage = Obj([type |-> Str("error"), message |-> Str("unknown camera")])


\* A transport closes, a reconnect timer fires or a transport opens in this
\* step: every step of a close and of the reconnect that follows.
TransportStep == sockets' # sockets \/ timers' # timers
TransportCloses ==
  \E i \in 1..Len(sockets) :
    /\ Len(sockets') = Len(sockets)
    /\ sockets[i].readyState # "CLOSED" /\ sockets'[i].readyState = "CLOSED"

\* C28 -- a transport close changes only the connected flag and the pending
\* reconnect timer: the last frame counter, the last displayed FPS, the FPS
\* window (count and start) and the last overlays are unchanged across the
\* close and the reconnect that follows, until the next Frame arrives.
C28_CloseKeepsStreamState ==
  [][/\ TransportStep =>
          /\ frameCount' = frameCount /\ fps' = fps
          /\ fpsCounterRef' = fpsCounterRef /\ aiData' = aiData
     /\ TransportCloses =>
          /\ imgSrc' = imgSrc /\ wsRef' = wsRef /\ cameraId' = cameraId
          /\ mounted' = mounted /\ now' = now]_vars
\* Frame 2 with detections and a window count of 2 from the first half second
\* are still there after the transport closed and a second one opened 3 s
\* later.
C28_Witness ==
  /\ mounted /\ connected /\ Len(sockets) = 2
  /\ sockets[1].readyState = "CLOSED" /\ sockets[2].readyState = "OPEN"
  /\ now >= RECONNECT_DELAY_MS
  /\ frameCount = Num(2) /\ aiData # Null
  /\ fpsCounterRef = [count |-> 2, lastTime |-> 0]


\* The requests of the view that are in flight.
InFlight == {k \in 1..Len(analysis.requests) : analysis.requests[k].pending}
RequestSent == Len(analysis.requests') > Len(analysis.requests)

\* C29 -- at most one OpenAI analysis request is in flight per view at any
\* time and the analysis status follows idle -> loading -> (done | error): a
\* click while the status is loading starts no request, also after the
\* cameraId or aiSource changed while a request was in flight, and a result
\* shown belongs to the current cameraId and aiSource.
C29_OneAnalysisInFlight ==
  [][/\ Cardinality(InFlight') <= 1
     /\ RequestSent => (analysis.analysisStatus # "loading" /\ InFlight = {})
     /\ (analysis'.analysisStatus \in {"done", "error"}
           /\ analysis'.analysisStatus # analysis.analysisStatus)
          => analysis.analysisStatus = "loading"
     /\ (mounted' /\ analysis'.analysisResult # Null)
          => analysis'.analysisResult
               = Obj([cameraId |-> Str(cameraId'), aiSource |-> Str(analysis'.aiSource)])]_vars

====
